---------------------------- MODULE Spec2Model ----------------------------
(***************************************************************************)
(* Model of the content-summarization and relevance-ranking pipeline of    *)
(* the Miro / Gong MCP servers (src/src/miro-client.ts,                    *)
(* src/src/miro-server.ts, src/unnamed/part_002).                          *)
(*                                                                         *)
(* JavaScript strings are modelled as sequences of one-character strings.  *)
(* A similarity score (a double in the source) is kept as an exact         *)
(* fraction [num, den]; the thresholds the code compares it with are       *)
(* compared by cross-multiplication.                                       *)
(***************************************************************************)
EXTENDS Integers, Sequences, FiniteSets, TLC

VARIABLES
    simA, simB, simOut,            \* calculateSimilarity: arguments, results
    content, maxItems, result,     \* summarizeContent: arguments, return value
    htmlContent, cleaned,          \* cleanHtmlContent: argument, return values
    catContent, analysis,          \* analyzeContent: argument, return value
    maxRecommendations, recommendations,
                                   \* generateRecommendations: cap, return value
    gongCalls,                     \* the calls the Gong API holds
    customerName, fromDate, toDate, searchOut,
                                   \* search_gong_calls: arguments, response
    selectionNumber, selectOut,    \* select_gong_call: argument, response
    attempt, fetchLog, retryPc, retryWait, thrown,
                                   \* fetchWithRetry: locals, fetches made,
                                   \* position, error thrown
    gongServer, gongCache,         \* the Gong API's paging, the module's cache
    invocation,                    \* gongGet: each caller's locals and position
    boardTool, miroRun, toolResponse
                                   \* board tool call: arguments, the Miro
                                   \* fetch in progress, response

vars == <<simA, simB, simOut, content, maxItems, result,
          htmlContent, cleaned, catContent, analysis,
          maxRecommendations, recommendations,
          gongCalls, customerName, fromDate, toDate, searchOut,
          selectionNumber, selectOut,
          attempt, fetchLog, retryPc, retryWait, thrown,
          gongServer, gongCache, invocation, boardTool, miroRun, toolResponse>>

-----------------------------------------------------------------------------
(* Bounds of the model *)

\* callers of gongGet that may be in flight together
Callers == {1, 2}

\* cache keys `${endpoint}:${JSON.stringify(params)}` of two different
\* parameter objects for the endpoint /calls
GongKeys == {"/calls:{\"fromDateTime\":\"A\"}", "/calls:{\"fromDateTime\":\"B\"}"}

\* longest string handed to calculateSimilarity in SpecSim
MaxLen == 3
\* longest content array handed to the recommendation entry points in SpecRec
MaxRecPhrases == 3
\* largest and most negative cap maxRecommendations in SpecRec
MaxRecommendations == 10
NegRecommendations == 1
\* most calls the Gong API holds in SpecSearch and SpecSelect
MaxCalls == 2
\* the current month; calls start in months 1..Now
Now == 4
\* longest content array handed to summarizeContent in SpecSum
MaxContent == 3
\* longest content array handed to summarizeContent in SpecFilter
MaxFilterContent == 2
\* most tokens an htmlContent handed to cleanHtmlContent is made of in SpecNorm
MaxTokens == 4
\* longest content array handed to the content analysis in SpecCat
MaxPhrases == 3
\* maxItems ranges over -NegItems..MaxItems
MaxItems == 3
NegItems == 2

\* from.setMonth(now.getMonth() - 2): the default search range
MonthsBack == 2

-----------------------------------------------------------------------------
(* Characters and the String.prototype helpers the code uses *)

UpperChars == <<"A","B","C","D","E","F","G","H","I","J","K","L","M",
                "N","O","P","Q","R","S","T","U","V","W","X","Y","Z">>
LowerChars == <<"a","b","c","d","e","f","g","h","i","j","k","l","m",
                "n","o","p","q","r","s","t","u","v","w","x","y","z">>
DigitChars == {"0","1","2","3","4","5","6","7","8","9"}

\* \s of a JavaScript regular expression, and what trim() strips
WhiteSpace == {" ", "\t", "\n"}

\* \w of a JavaScript regular expression
WordChars == {UpperChars[i] : i \in 1..26} \cup {LowerChars[i] : i \in 1..26}
             \cup DigitChars \cup {"_"}

ToLowerChar(c) ==
    IF \E i \in 1..26 : UpperChars[i] = c
    THEN LowerChars[CHOOSE i \in 1..26 : UpperChars[i] = c]
    ELSE c

\* String.prototype.toLowerCase
ToLowerCase(s) == [i \in 1..Len(s) |-> ToLowerChar(s[i])]

\* String.prototype.trim
Trim(s) ==
    LET keep == {i \in 1..Len(s) : s[i] \notin WhiteSpace}
    IN  IF keep = {} THEN <<>>
        ELSE LET lo == CHOOSE i \in keep : \A j \in keep : i <= j
                 hi == CHOOSE i \in keep : \A j \in keep : j <= i
             IN  SubSeq(s, lo, hi)

\* s.startsWith(p) / a regular expression anchored with ^ on a literal
StartsWith(s, p) == Len(p) <= Len(s) /\ SubSeq(s, 1, Len(p)) = p

\* String.prototype.includes
Includes(s, p) ==
    \E i \in 1..(Len(s) - Len(p) + 1) : SubSeq(s, i, i + Len(p) - 1) = p

Max(x, y) == IF x >= y THEN x ELSE y
Min(x, y) == IF x <= y THEN x ELSE y

-----------------------------------------------------------------------------
(* calculateSimilarity: Levenshtein distance turned into a similarity *)

\* a similarity value num/den
Sim(n, d) == [num |-> n, den |-> d]
SimOne == Sim(1, 1)
SimZero == Sim(0, 1)
SimEq(s, t) == s.num * t.den = t.num * s.den
\* s > n/d, s <= n/d
SimAbove(s, n, d) == s.num * d > n * s.den
SimAtMost(s, n, d) == ~SimAbove(s, n, d)

\* mutant: a mismatch costs nothing more than a match
SubstitutionCostFree(x, y) == 0

\* (a[i - 1] === b[j - 1] ? 0 : 1)
SubstitutionCost(x, y) == IF x = y THEN 0 ELSE 1

\* mutant: the insertion case is left out of the minimum
MatrixCellNoInsertion(up, left, diag, x, y) ==
    Min(up + 1, diag + SubstitutionCost(x, y))

\* matrix[i][j] = Math.min(deletion, insertion, substitution)
MatrixCell(up, left, diag, x, y) ==
    Min(Min(up + 1, left + 1), diag + SubstitutionCost(x, y))

\* the inner loop, for (let j = lo; j <= hi; j++), on row i: prev is row
\* i-1 and acc the part of row i filled so far; column j is kept at index
\* j+1. The range is walked in order, split in halves.
RECURSIVE FillRow(_, _, _, _, _, _)
FillRow(prev, ai, b, lo, hi, acc) ==
    IF lo > hi THEN acc
    ELSE IF lo = hi
         THEN Append(acc, MatrixCell(prev[lo + 1], acc[lo], prev[lo], ai, b[lo]))
         ELSE LET mid == (lo + hi) \div 2
                  left == FillRow(prev, ai, b, lo, mid, acc)
              IN  IF Len(left) = mid + 1
                  THEN FillRow(prev, ai, b, mid + 1, hi, left)
                  ELSE left

\* the outer loop, for (let i = lo; i <= hi; i++): prev is row lo-1, the
\* value is row hi. Row i starts with matrix[i][0] = i.
RECURSIVE FillMatrix(_, _, _, _, _)
FillMatrix(a, b, lo, hi, prev) ==
    IF lo > hi THEN prev
    ELSE IF lo = hi
         THEN FillRow(prev, a[lo], b, 1, Len(b), <<lo>>)
         ELSE LET mid == (lo + hi) \div 2
                  upper == FillMatrix(a, b, lo, mid, prev)
              IN  IF Len(upper) = Len(b) + 1
                  THEN FillMatrix(a, b, mid + 1, hi, upper)
                  ELSE upper

\* matrix[a.length][b.length]
Distance(a, b) ==
    FillMatrix(a, b, 1, Len(a), [j \in 1..(Len(b) + 1) |-> j - 1])[Len(b) + 1]

\* MiroClient.calculateSimilarity
CalculateSimilarity(a, b) ==
    IF a = b THEN SimOne
    ELSE IF Len(a) = 0 \/ Len(b) = 0 THEN SimZero
    ELSE LET maxLength == Max(Len(a), Len(b))
         IN  IF maxLength = 0 THEN SimOne
             ELSE Sim(maxLength - Distance(a, b), maxLength)

\* calculateSimilarity of the call-matching server
GongCalculateSimilarity(a, b) ==
    LET maxLen == Max(Len(a), Len(b))
    IN  IF maxLen = 0 THEN SimOne
        ELSE Sim(maxLen - Distance(a, b), maxLen)

-----------------------------------------------------------------------------
(* SpecSim: both calculateSimilarity implementations on bounded strings *)

SimAlphabet == {"a", "b"}
SimStrings == UNION {[1..n -> SimAlphabet] : n \in 0..MaxLen}

NoSimOut == [impl |-> "none", ab |-> SimZero, ba |-> SimZero, aa |-> SimZero]

SimPinned == simA = <<>> /\ simB = <<>> /\ simOut = NoSimOut
SumPinned == content = <<>> /\ maxItems = 0 /\ result = [done |-> FALSE]
NormPinned == htmlContent = <<>> /\ cleaned = [done |-> FALSE]
CatPinned == catContent = <<>> /\ analysis = [done |-> FALSE]
RecPinned ==
    maxRecommendations = 0 /\ recommendations = [done |-> FALSE]
GongPinned ==
    gongCalls = <<>> /\ customerName = <<>> /\ fromDate = [given |-> FALSE]
    /\ toDate = [given |-> FALSE] /\ searchOut = [done |-> FALSE]
    /\ selectionNumber = 0 /\ selectOut = [done |-> FALSE]
RetryPinned ==
    attempt = 0 /\ fetchLog = <<>> /\ retryPc = "idle" /\ retryWait = 0
    /\ thrown = 0
FetchPinned ==
    gongServer = [used |-> FALSE]
    /\ gongCache = [key \in GongKeys |-> [has |-> FALSE]]
    /\ invocation = [p \in Callers |-> [pc |-> "none"]]
    /\ boardTool = [tool |-> "none"] /\ miroRun = [pc |-> "idle"]
    /\ toolResponse = [done |-> FALSE]

SimInit ==
    /\ simA \in SimStrings
    /\ simB \in SimStrings
    /\ simOut = NoSimOut
    /\ SumPinned /\ NormPinned /\ CatPinned /\ RecPinned /\ GongPinned /\ RetryPinned /\ FetchPinned

\* MiroClient.calculateSimilarity called on (a,b), (b,a) and (a,a)
CalcSimilarityClient ==
    /\ simOut.impl = "none"
    /\ simOut' = [impl |-> "client",
                  ab |-> CalculateSimilarity(simA, simB),
                  ba |-> CalculateSimilarity(simB, simA),
                  aa |-> CalculateSimilarity(simA, simA)]
    /\ UNCHANGED <<simA, simB, content, maxItems, result,
                   htmlContent, cleaned, catContent, analysis,
                   maxRecommendations, recommendations,
                   gongCalls, customerName, fromDate, toDate, searchOut,
                   selectionNumber, selectOut,
                   attempt, fetchLog, retryPc, retryWait, thrown,
                   gongServer, gongCache, invocation, boardTool, miroRun,
                   toolResponse>>

\* the call-matching calculateSimilarity called on (a,b), (b,a) and (a,a)
CalcSimilarityGong ==
    /\ simOut.impl = "none"
    /\ simOut' = [impl |-> "gong",
                  ab |-> GongCalculateSimilarity(simA, simB),
                  ba |-> GongCalculateSimilarity(simB, simA),
                  aa |-> GongCalculateSimilarity(simA, simA)]
    /\ UNCHANGED <<simA, simB, content, maxItems, result,
                   htmlContent, cleaned, catContent, analysis,
                   maxRecommendations, recommendations,
                   gongCalls, customerName, fromDate, toDate, searchOut,
                   selectionNumber, selectOut,
                   attempt, fetchLog, retryPc, retryWait, thrown,
                   gongServer, gongCache, invocation, boardTool, miroRun,
                   toolResponse>>

SimNext == CalcSimilarityClient \/ CalcSimilarityGong

SpecSim == SimInit /\ [][SimNext]_vars

-----------------------------------------------------------------------------
(* Edit distance by its definition: the length of a shortest chain of      *)
(* single-character insertions, deletions and substitutions.               *)

OneEdit(s) ==
    {SubSeq(s, 1, i - 1) \o SubSeq(s, i + 1, Len(s)) : i \in 1..Len(s)}
    \cup {[s EXCEPT ![i] = c] : i \in 1..Len(s), c \in SimAlphabet}
    \cup (IF Len(s) >= MaxLen THEN {}
          ELSE {SubSeq(s, 1, i) \o <<c>> \o SubSeq(s, i + 1, Len(s)) :
                    i \in 0..Len(s), c \in SimAlphabet})

RECURSIVE EditSteps(_, _, _)
EditSteps(reached, target, k) ==
    IF target \in reached THEN k
    ELSE EditSteps(reached \cup UNION {OneEdit(s) : s \in reached}, target, k + 1)

MinEdits(a, b) == EditSteps({a}, b, 0)

-----------------------------------------------------------------------------
(* Claims about calculateSimilarity *)

\* C6: calculateSimilarity is symmetric and reflexive in both
\* implementations: similarity(a,b) = similarity(b,a) and similarity(a,a) = 1.
C6_SimilaritySymmetricReflexive ==
    simOut.impl # "none" =>
        /\ SimEq(simOut.ab, simOut.ba)
        /\ SimEq(simOut.aa, SimOne)

\* two different non-empty strings of different lengths were compared by
\* the call-matching implementation
C6_Witness ==
    /\ simOut.impl = "gong"
    /\ Len(simA) = 2 /\ Len(simB) = 3
    /\ simOut.ab.num > 0 /\ simOut.ab.num < simOut.ab.den

\* C7: calculateSimilarity(a,b) = 1 - editDistance(a,b)/max(len a, len b),
\* in [0,1], 1 for two empty strings, 0 for a non-empty against the empty.
C7_SimilarityIsNormalizedEditDistance ==
    simOut.impl # "none" =>
        LET m == Max(Len(simA), Len(simB))
        IN  /\ m > 0 => SimEq(simOut.ab, Sim(m - MinEdits(simA, simB), m))
            /\ m = 0 => SimEq(simOut.ab, SimOne)
            /\ 0 <= simOut.ab.num /\ simOut.ab.num <= simOut.ab.den
            /\ simOut.ab.den > 0
            /\ (m > 0 /\ (Len(simA) = 0 \/ Len(simB) = 0))
                   => SimEq(simOut.ab, SimZero)

\* the client implementation compared "aba"-like strings two edits apart
C7_Witness ==
    /\ simOut.impl = "client"
    /\ Len(simA) = 3 /\ Len(simB) = 3
    /\ MinEdits(simA, simB) = 2
    /\ SimEq(simOut.ab, Sim(1, 3))

-----------------------------------------------------------------------------
(* summarizeContent: filter, deduplicate, score, rank, truncate *)

\* an element of the content array: a string, or a value of another type
Str(v) == [t |-> "string", v |-> v]
NonString(t) == [t |-> t, v |-> <<>>]

\* trimmed.length < 3 is skipped
MinTrimmedLength == 3
\* trimmed.length > 300 is skipped
MaxTrimmedLength == 300
\* similarity > 0.8 is a duplicate: 0.8 = SimilarityThresholdNum / SimilarityThresholdDen
SimilarityThresholdNum == 8
SimilarityThresholdDen == 10

\* !item
Falsy(item) ==
    \/ item.t \in {"null", "undefined"}
    \/ item.t = "string" /\ item.v = <<>>

\* /^https?:\/\//
IsUrl(s) ==
    \/ StartsWith(s, <<"h","t","t","p",":","/","/">>)
    \/ StartsWith(s, <<"h","t","t","p","s",":","/","/">>)

\* /^[^\w\s]*$/
OnlyPunctuation(s) == \A i \in 1..Len(s) : s[i] \notin WordChars \cup WhiteSpace

\* /^(.)\1{3,}$/ ('.' matches no line terminator)
RepeatedCharacter(s) ==
    /\ Len(s) >= 4
    /\ s[1] # "\n"
    /\ \A i \in 1..Len(s) : s[i] = s[1]

\* mutant: the upper length limit is off by one
MeaningfulLongAllowed(item) ==
    /\ ~(Falsy(item) \/ item.t # "string")
    /\ LET trimmed == Trim(item.v)
       IN  /\ ~(Len(trimmed) < MinTrimmedLength)
           /\ ~(Len(trimmed) > MaxTrimmedLength + 1)
           /\ ~IsUrl(trimmed)
           /\ ~OnlyPunctuation(trimmed)
           /\ ~RepeatedCharacter(trimmed)

\* the predicate of content.filter(...) in summarizeContent
Meaningful(item) ==
    /\ ~(Falsy(item) \/ item.t # "string")
    /\ LET trimmed == Trim(item.v)
       IN  /\ ~(Len(trimmed) < MinTrimmedLength)
           /\ ~(Len(trimmed) > MaxTrimmedLength)
           /\ ~IsUrl(trimmed)
           /\ ~OnlyPunctuation(trimmed)
           /\ ~RepeatedCharacter(trimmed)

\* mutant: the comparison is made without lowercasing
IsDuplicateOfCaseSensitive(existing, item) ==
    LET normalized == Trim(item.v)
        existingNormalized == Trim(existing.v)
    IN  \/ normalized = existingNormalized
        \/ SimAbove(CalculateSimilarity(existingNormalized, normalized),
                    SimilarityThresholdNum, SimilarityThresholdDen)

\* the callback of unique.some(...) in removeSimilarContent
IsDuplicateOf(existing, item) ==
    LET normalized == Trim(ToLowerCase(item.v))
        existingNormalized == Trim(ToLowerCase(existing.v))
    IN  \/ normalized = existingNormalized
        \/ SimAbove(CalculateSimilarity(existingNormalized, normalized),
                    SimilarityThresholdNum, SimilarityThresholdDen)

\* mutant: an item is compared with every earlier item, kept or dropped
RECURSIVE RemoveSimilarFromAnyEarlier(_, _, _)
RemoveSimilarFromAnyEarlier(list, i, unique) ==
    IF i > Len(list) THEN unique
    ELSE LET isDuplicate ==
                 \E k \in 1..(i - 1) : IsDuplicateOf(list[k], list[i])
         IN  RemoveSimilarFromAnyEarlier(list, i + 1,
                 IF isDuplicate THEN unique ELSE Append(unique, list[i]))

\* the loop of removeSimilarContent from item i on
RECURSIVE RemoveSimilarFrom(_, _, _)
RemoveSimilarFrom(list, i, unique) ==
    IF i > Len(list) THEN unique
    ELSE LET isDuplicate ==
                 \E k \in 1..Len(unique) : IsDuplicateOf(unique[k], list[i])
         IN  RemoveSimilarFrom(list, i + 1,
                 IF isDuplicate THEN unique ELSE Append(unique, list[i]))

\* MiroClient.removeSimilarContent
RemoveSimilarContent(list) == RemoveSimilarFrom(list, 1, <<>>)

BusinessTerms == <<
    <<"p","r","o","j","e","c","t">>,
    <<"t","a","s","k">>,
    <<"g","o","a","l">>,
    <<"t","e","a","m">>,
    <<"s","t","r","a","t","e","g","y">>,
    <<"p","l","a","n">>,
    <<"i","d","e","a">>,
    <<"i","s","s","u","e">>,
    <<"s","o","l","u","t","i","o","n">>,
    <<"u","s","e","r">>,
    <<"c","u","s","t","o","m","e","r">>,
    <<"f","e","a","t","u","r","e">>,
    <<"r","e","q","u","i","r","e","m","e","n","t">>,
    <<"s","p","r","i","n","t">>,
    <<"m","e","e","t","i","n","g">>,
    <<"a","c","t","i","o","n">>,
    <<"d","e","c","i","s","i","o","n">>,
    <<"r","i","s","k">>,
    <<"o","p","p","o","r","t","u","n","i","t","y">> >>

NoiseWords == {
    <<"u","n","t","i","t","l","e","d">>,
    <<"n","e","w">>,
    <<"i","t","e","m">>,
    <<"t","e","x","t">>,
    <<"n","o","t","e">>,
    <<"c","a","r","d">> }

\* content.split(/\s+/).length: one more than the number of whitespace runs
WordCount(s) ==
    1 + Cardinality({i \in 1..Len(s) :
            s[i] \in WhiteSpace /\ (i = 1 \/ s[i - 1] \notin WhiteSpace)})

\* /^(untitled|new|item|text|note|card)\s*\d*$/i
IsNoisePattern(s) ==
    LET lower == ToLowerCase(s)
    IN  \E w \in NoiseWords :
            /\ StartsWith(lower, w)
            /\ \E k \in Len(w)..Len(s) :
                   /\ \A i \in (Len(w) + 1)..k : s[i] \in WhiteSpace
                   /\ \A i \in (k + 1)..Len(s) : s[i] \in DigitChars

\* /^\d+$/
OnlyDigits(s) == Len(s) > 0 /\ \A i \in 1..Len(s) : s[i] \in DigitChars

\* MiroClient.getContentRelevanceScore
GetContentRelevanceScore(s) ==
    LET words == WordCount(s)
        length == Len(s)
        lowerContent == ToLowerCase(s)
        matchingTerms == {k \in 1..Len(BusinessTerms) :
                              Includes(lowerContent, BusinessTerms[k])}
    IN  (IF length >= 10 /\ length <= 100 THEN 3
         ELSE IF length > 100 /\ length <= 200 THEN 1 ELSE 0)
        + (IF words > 1 THEN 2 ELSE 0)
        + (IF words >= 4 THEN 1 ELSE 0)
        + Cardinality(matchingTerms) * 2
        + (IF \E i \in 1..Len(s) : s[i] = "?" THEN 1 ELSE 0)
        - (IF IsNoisePattern(s) THEN 5 ELSE 0)
        - (IF OnlyDigits(s) THEN 3 ELSE 0)

\* mutant: the comparator is a.score - b.score (ascending)
ComesBeforeAscending(x, y) ==
    GetContentRelevanceScore(x.v) < GetContentRelevanceScore(y.v)

\* the comparator b.score - a.score is negative: x sorts before y
ComesBefore(x, y) ==
    GetContentRelevanceScore(x.v) > GetContentRelevanceScore(y.v)

\* Array.prototype.sort is stable: x goes behind every element that does not
\* have to come after it
RECURSIVE InsertSorted(_, _)
InsertSorted(sorted, x) ==
    IF sorted = <<>> THEN <<x>>
    ELSE IF ComesBefore(x, sorted[Len(sorted)])
         THEN Append(InsertSorted(SubSeq(sorted, 1, Len(sorted) - 1), x),
                     sorted[Len(sorted)])
         ELSE Append(sorted, x)

RECURSIVE SortFrom(_, _, _)
SortFrom(list, i, sorted) ==
    IF i > Len(list) THEN sorted
    ELSE SortFrom(list, i + 1, InsertSorted(sorted, list[i]))

\* MiroClient.prioritizeContent
PrioritizeContent(list) == SortFrom(list, 1, <<>>)

\* mutant: a negative end is not clamped the way slice does it, the whole
\* array is returned for any end beyond 0
SliceNoClamp(list, end) ==
    IF end <= 0 THEN <<>> ELSE list

\* Array.prototype.slice(0, end) for an integer end
Slice(list, end) ==
    LET k == IF end < 0 THEN Max(Len(list) + end, 0) ELSE Min(end, Len(list))
    IN  SubSeq(list, 1, k)

\* MiroClient.summarizeContent
SummarizeContent(items, n) ==
    LET meaningfulContent == SelectSeq(items, Meaningful)
        uniqueContent == RemoveSimilarContent(meaningfulContent)
        prioritized == PrioritizeContent(uniqueContent)
        summary == Slice(prioritized, n)
    IN  [done |-> TRUE,
         \* toLowerCase / split on a non-string element throws a TypeError
         threw |-> \E i \in 1..Len(meaningfulContent) :
                       meaningfulContent[i].t # "string",
         uniqueContent |-> uniqueContent,
         summary |-> summary,
         total |-> Len(items),
         summarized |-> Len(summary),
         skipped |-> Len(items) - Len(summary)]

-----------------------------------------------------------------------------
(* SpecSum, SpecFilter: summarizeContent on arrays drawn from two pools *)

\* a string of n characters that starts with business terms
LongContent(n) ==
    LET prefix == <<"p","r","o","j","e","c","t"," ","t","a","s","k"," ","g","o","a","l"," ","t","e","a","m"," ">>
    IN  prefix \o [i \in 1..(n - Len(prefix)) |-> IF i % 2 = 1 THEN "x" ELSE "y"]

\* items that exercise deduplication and ranking
SumPool == {
    Str(<<"S","p","r","i","n","t"," ","p","l","a","n">>),
    Str(<<" ","s","p","r","i","n","t"," ","P","L","A","N"," ">>),
    Str(<<"S","p","r","i","n","t"," ","p","l","a","n","s">>),
    Str(<<"r","i","s","k">>),
    Str(<<"r","i","s","k","y">>),
    Str(<<"g","o","a","l">>),
    NonString("number") }

\* items that exercise the filter stage
FilterPool == {
    Str(<<>>),
    Str(<<" "," "," ">>),
    Str(<<" ","a","b"," ">>),
    Str(<<"a","b","c">>),
    Str(<<"!","?","!">>),
    Str(<<"a","a","a","a">>),
    Str(<<"h","t","t","p",":","/","/","a">>),
    Str(LongContent(MaxTrimmedLength + 1)),
    Str(LongContent(MaxTrimmedLength)),
    NonString("number"),
    NonString("undefined"),
    NonString("object") }

\* items of which the second is a near-duplicate of the first and of the
\* third, while the first and the third are not near-duplicates
ChainPool == {
    Str(<<"p","l","a","n","n","i","n">>),
    Str(<<"p","l","a","n","n","i","n","g">>),
    Str(<<"p","l","a","n","n","i","n","g","s">>) }

ArraysOf(pool, n) == UNION {[1..k -> pool] : k \in 0..n}

SumInit ==
    /\ content \in ArraysOf(SumPool, MaxContent)
                      \cup ArraysOf(ChainPool, MaxContent)
    /\ maxItems \in (0 - NegItems)..MaxItems
    /\ result = [done |-> FALSE]
    /\ SimPinned /\ NormPinned /\ CatPinned /\ RecPinned /\ GongPinned /\ RetryPinned /\ FetchPinned

FilterInit ==
    /\ content \in ArraysOf(FilterPool, MaxFilterContent)
    /\ maxItems \in (0 - NegItems)..MaxItems
    /\ result = [done |-> FALSE]
    /\ SimPinned /\ NormPinned /\ CatPinned /\ RecPinned /\ GongPinned /\ RetryPinned /\ FetchPinned

\* a call summarizeContent(content, maxItems)
DoSummarizeContent ==
    /\ ~result.done
    /\ result' = SummarizeContent(content, maxItems)
    /\ UNCHANGED <<simA, simB, simOut, content, maxItems,
                   htmlContent, cleaned, catContent, analysis,
                   maxRecommendations, recommendations,
                   gongCalls, customerName, fromDate, toDate, searchOut,
                   selectionNumber, selectOut,
                   attempt, fetchLog, retryPc, retryWait, thrown,
                   gongServer, gongCache, invocation, boardTool, miroRun,
                   toolResponse>>

SumNext == DoSummarizeContent

SpecSum == SumInit /\ [][SumNext]_vars
SpecFilter == FilterInit /\ [][SumNext]_vars

-----------------------------------------------------------------------------
(* Claims about summarizeContent *)

\* lowercased and trimmed, as the deduplication compares items
Normalized(item) == Trim(ToLowerCase(item.v))

\* position of a deduplicated item in the deduplicated list
PositionIn(list, x) == CHOOSE k \in 1..Len(list) : list[k] = x

\* C1: for every input and every maxItems N >= 0 the summary has at most N
\* elements.
C1_SummaryAtMostN ==
    (result.done /\ maxItems >= 0) => Len(result.summary) <= maxItems

\* three items survived deduplication and the summary was cut to two
C1_Witness ==
    /\ result.done
    /\ maxItems = 2
    /\ Len(result.uniqueContent) = 3
    /\ Len(result.summary) = 2

\* C2: no two elements of a summary at different positions are equal after
\* lowercasing and trimming, and no two have similarity above 0.8.
C2_SummaryPairwiseDissimilar ==
    result.done =>
        \A i, j \in 1..Len(result.summary) :
            i # j =>
                /\ Normalized(result.summary[i]) # Normalized(result.summary[j])
                /\ SimAtMost(CalculateSimilarity(Normalized(result.summary[i]),
                                                 Normalized(result.summary[j])),
                             SimilarityThresholdNum, SimilarityThresholdDen)

\* a near-duplicate of the first item came third, behind an unrelated item,
\* and was dropped
C2_Witness ==
    /\ result.done
    /\ Len(content) = 3
    /\ Len(result.summary) = 2
    /\ content[1].t = "string" /\ content[2].t = "string" /\ content[3].t = "string"
    /\ Normalized(content[1]) # Normalized(content[3])
    /\ IsDuplicateOf(content[1], content[3])
    /\ ~IsDuplicateOf(content[1], content[2])
    /\ ~IsDuplicateOf(content[2], content[3])

\* C3: every element of a summary is a string with trimmed length in 3..300;
\* a 301-character string, an empty or whitespace-only string and a
\* non-string never appear, and their presence raises no error.
C3_SummaryElementsWithinLengthWindow ==
    result.done =>
        /\ ~result.threw
        /\ \A i \in 1..Len(result.summary) :
               /\ result.summary[i].t = "string"
               /\ Len(Trim(result.summary[i].v)) >= 3
               /\ Len(Trim(result.summary[i].v)) <= 300

\* a 301-character string of high relevance was dropped while a
\* 300-character one was kept
C3_Witness ==
    /\ result.done
    /\ ~result.threw
    /\ \E i \in 1..Len(content) :
           content[i].t = "string" /\ Len(content[i].v) = 301
    /\ Len(result.summary) = 1
    /\ Len(result.summary[1].v) = 300

\* C4: the summary is the first N items of the deduplicated list in a stable
\* descending sort by relevance score.
C4_SummaryIsStableTopN ==
    result.done =>
        LET summary == result.summary
            unique == result.uniqueContent
            Score(x) == GetContentRelevanceScore(x.v)
            InSummary(x) == \E i \in 1..Len(summary) : summary[i] = x
        IN  /\ maxItems >= 0 => Len(summary) = Min(maxItems, Len(unique))
            /\ \A i \in 1..Len(summary) :
                   \E k \in 1..Len(unique) : unique[k] = summary[i]
            /\ \A i, j \in 1..Len(summary) :
                   i < j =>
                       /\ Score(summary[i]) >= Score(summary[j])
                       /\ Score(summary[i]) = Score(summary[j]) =>
                              PositionIn(unique, summary[i])
                                  < PositionIn(unique, summary[j])
            /\ \A k \in 1..Len(unique) :
                   ~InSummary(unique[k]) =>
                       \A i \in 1..Len(summary) :
                           /\ Score(unique[k]) <= Score(summary[i])
                           /\ Score(unique[k]) = Score(summary[i]) =>
                                  PositionIn(unique, summary[i]) < k

\* a later item of higher score moved to the front, two items of equal
\* score kept their input order, and the summary was cut
C4_Witness ==
    /\ result.done
    /\ maxItems = 2
    /\ Len(result.uniqueContent) = 3
    /\ Len(result.summary) = 2
    /\ result.summary[1] = result.uniqueContent[3]
    /\ result.summary[2] = result.uniqueContent[1]
    /\ GetContentRelevanceScore(result.uniqueContent[1].v)
           = GetContentRelevanceScore(result.uniqueContent[2].v)

\* C5: maxItems <= 0 gives an empty summary; an empty input gives an empty
\* summary with total, summarized and skipped all 0.
C5_NonPositiveMaxItemsGivesEmptySummary ==
    result.done =>
        /\ maxItems <= 0 => result.summary = <<>>
        /\ content = <<>> =>
               /\ result.summary = <<>>
               /\ result.total = 0 /\ result.summarized = 0 /\ result.skipped = 0

-----------------------------------------------------------------------------
(* cleanHtmlContent: strip tags, decode entities, trim *)

\* .replace(/<[^>]*>/g, ''): a '<' with a '>' somewhere behind it is removed
\* up to the first such '>'
RECURSIVE RemoveTagsFrom(_, _)
RemoveTagsFrom(s, i) ==
    IF i > Len(s) THEN <<>>
    ELSE LET closing == {j \in (i + 1)..Len(s) : s[j] = ">"}
         IN  IF s[i] = "<" /\ closing # {}
             THEN RemoveTagsFrom(s,
                      (CHOOSE j \in closing : \A k \in closing : j <= k) + 1)
             ELSE <<s[i]>> \o RemoveTagsFrom(s, i + 1)

RemoveTags(s) == RemoveTagsFrom(s, 1)

\* .replace(/pat/g, rep) for a literal pattern: left to right, the
\* replacement is not scanned again
RECURSIVE ReplaceAllFrom(_, _, _, _)
ReplaceAllFrom(s, pat, rep, i) ==
    IF i > Len(s) THEN <<>>
    ELSE IF i + Len(pat) - 1 <= Len(s) /\ SubSeq(s, i, i + Len(pat) - 1) = pat
         THEN rep \o ReplaceAllFrom(s, pat, rep, i + Len(pat))
         ELSE <<s[i]>> \o ReplaceAllFrom(s, pat, rep, i + 1)

ReplaceAll(s, pat, rep) == ReplaceAllFrom(s, pat, rep, 1)

\* .replace(/\s+/g, ' ')
RECURSIVE CollapseWhitespaceFrom(_, _)
CollapseWhitespaceFrom(s, i) ==
    IF i > Len(s) THEN <<>>
    ELSE IF s[i] \in WhiteSpace
         THEN LET rest == {j \in (i + 1)..Len(s) : s[j] \notin WhiteSpace}
              IN  <<" ">> \o (IF rest = {} THEN <<>>
                              ELSE CollapseWhitespaceFrom(s,
                                       CHOOSE j \in rest : \A k \in rest : j <= k))
         ELSE <<s[i]>> \o CollapseWhitespaceFrom(s, i + 1)

CollapseWhitespace(s) == CollapseWhitespaceFrom(s, 1)

\* the chain of entity replacements, in the order of the source
DecodeEntities(s) ==
    LET s1 == ReplaceAll(s, <<"&","n","b","s","p",";">>, <<" ">>)
        s2 == ReplaceAll(s1, <<"&","a","m","p",";">>, <<"&">>)
        s3 == ReplaceAll(s2, <<"&","l","t",";">>, <<"<">>)
        s4 == ReplaceAll(s3, <<"&","g","t",";">>, <<">">>)
        s5 == ReplaceAll(s4, <<"&","q","u","o","t",";">>, <<"\"">>)
    IN  ReplaceAll(s5, <<"&","#","3","9",";">>, <<"'">>)

\* MiroClient.cleanHtmlContent
CleanHtmlContent(htmlItem) ==
    IF Falsy(htmlItem) THEN <<>>
    ELSE Trim(DecodeEntities(RemoveTags(htmlItem.v)))

\* MiroTemplateRecommenderServer.cleanHtmlContent
ServerCleanHtmlContent(htmlItem) ==
    IF Falsy(htmlItem) THEN <<>>
    ELSE Trim(CollapseWhitespace(DecodeEntities(RemoveTags(htmlItem.v))))

-----------------------------------------------------------------------------
(* SpecNorm: both cleanHtmlContent implementations, applied once and twice *)

HtmlTokens == {
    <<"&">>, <<"a","m","p",";">>, <<"l","t",";">>, <<"g","t",";">>,
    <<"n","b","s","p",";">>, <<"q","u","o","t",";">>, <<"#","3","9",";">>,
    <<"<">>, <<">">>, <<"b">>, <<" ">> }

RECURSIVE Concat(_)
Concat(tokens) ==
    IF tokens = <<>> THEN <<>> ELSE Head(tokens) \o Concat(Tail(tokens))

NormInit ==
    /\ htmlContent \in {Str(Concat(ts)) : ts \in ArraysOf(HtmlTokens, MaxTokens)}
                           \cup {NonString("undefined")}
    /\ cleaned = [done |-> FALSE]
    /\ SimPinned /\ SumPinned /\ CatPinned /\ RecPinned /\ GongPinned /\ RetryPinned /\ FetchPinned

\* cleanHtmlContent(htmlContent) and cleanHtmlContent of its result
DoCleanHtmlContent ==
    /\ ~cleaned.done
    /\ LET client == CleanHtmlContent(htmlContent)
           server == ServerCleanHtmlContent(htmlContent)
       IN  cleaned' = [done |-> TRUE,
                       client |-> client,
                       clientTwice |-> CleanHtmlContent(Str(client)),
                       server |-> server,
                       serverTwice |-> ServerCleanHtmlContent(Str(server))]
    /\ UNCHANGED <<simA, simB, simOut, content, maxItems, result,
                   htmlContent, catContent, analysis,
                   maxRecommendations, recommendations,
                   gongCalls, customerName, fromDate, toDate, searchOut,
                   selectionNumber, selectOut,
                   attempt, fetchLog, retryPc, retryWait, thrown,
                   gongServer, gongCache, invocation, boardTool, miroRun,
                   toolResponse>>

NormNext == DoCleanHtmlContent

SpecNorm == NormInit /\ [][NormNext]_vars

-----------------------------------------------------------------------------
(* Claims about cleanHtmlContent *)

\* C8: text normalization is idempotent,
\* cleanHtmlContent(cleanHtmlContent(s)) = cleanHtmlContent(s), also for
\* encoded entities of entities and encoded angle brackets around tag-like
\* text.
C8_NormalizationIdempotent ==
    cleaned.done =>
        /\ cleaned.clientTwice = cleaned.client
        /\ cleaned.serverTwice = cleaned.server

\* C9: the normalizer applied to board item content returns a string with no
\* leading or trailing whitespace and no run of two or more whitespace
\* characters; empty or undefined input gives the empty string.
C9_BoardContentWhitespaceNormalized ==
    cleaned.done =>
        LET out == cleaned.client
        IN  /\ out # <<>> => (out[1] \notin WhiteSpace /\ out[Len(out)] \notin WhiteSpace)
            /\ \A i \in 1..(Len(out) - 1) :
                   ~(out[i] \in WhiteSpace /\ out[i + 1] \in WhiteSpace)
            /\ Falsy(htmlContent) => out = <<>>

-----------------------------------------------------------------------------
(* Content analysis: keyword matching against the category taxonomy *)

\* TEMPLATE_CATEGORIES of the server: keys and keywords, in declaration order
ServerTaxonomy == <<
    [key |-> "workshops", keywords |-> <<
        <<"w","o","r","k","s","h","o","p">>,
        <<"f","a","c","i","l","i","t","a","t","i","o","n">>,
        <<"m","e","e","t","i","n","g">>,
        <<"c","o","l","l","a","b","o","r","a","t","i","o","n">>,
        <<"t","e","a","m"," ","b","u","i","l","d","i","n","g">>,
        <<"i","c","e","b","r","e","a","k","e","r">>,
        <<"s","e","s","s","i","o","n">>,
        <<"a","t","t","e","n","d","e","e","s">>,
        <<"p","a","r","t","i","c","i","p","a","n","t","s">>,
        <<"d","i","s","c","u","s","s","i","o","n">>,
        <<"f","a","c","i","l","i","t","a","t","e","d">>,
        <<"b","r","e","a","k","o","u","t">>,
        <<"g","r","o","u","p"," ","e","x","e","r","c","i","s","e">>,
        <<"t","e","a","m"," ","a","c","t","i","v","i","t","y">> >>],
    [key |-> "brainstorming", keywords |-> <<
        <<"i","d","e","a","s">>,
        <<"c","r","e","a","t","i","v","i","t","y">>,
        <<"i","n","n","o","v","a","t","i","o","n">>,
        <<"b","r","a","i","n","s","t","o","r","m">>,
        <<"i","d","e","a","t","i","o","n">>,
        <<"c","o","n","c","e","p","t","s">>,
        <<"m","i","n","d"," ","m","a","p">>,
        <<"c","r","e","a","t","i","v","e"," ","t","h","i","n","k","i","n","g">>,
        <<"g","e","n","e","r","a","t","e"," ","i","d","e","a","s">>,
        <<"e","x","p","l","o","r","e"," ","o","p","t","i","o","n","s">>,
        <<"t","h","i","n","k"," ","o","u","t","s","i","d","e">>,
        <<"c","r","e","a","t","i","v","e"," ","s","e","s","s","i","o","n">>,
        <<"i","d","e","a"," ","g","e","n","e","r","a","t","i","o","n">> >>],
    [key |-> "research", keywords |-> <<
        <<"r","e","s","e","a","r","c","h">>,
        <<"u","s","e","r"," ","r","e","s","e","a","r","c","h">>,
        <<"m","a","r","k","e","t"," ","r","e","s","e","a","r","c","h">>,
        <<"c","u","s","t","o","m","e","r"," ","i","n","s","i","g","h","t","s">>,
        <<"u","s","e","r"," ","e","x","p","e","r","i","e","n","c","e">>,
        <<"u","x">>,
        <<"d","e","s","i","g","n"," ","r","e","s","e","a","r","c","h">>,
        <<"u","s","e","r"," ","t","e","s","t","i","n","g">>,
        <<"c","u","s","t","o","m","e","r"," ","j","o","u","r","n","e","y">>,
        <<"p","e","r","s","o","n","a">>,
        <<"u","s","e","r"," ","f","e","e","d","b","a","c","k">> >>],
    [key |-> "strategic_planning", keywords |-> <<
        <<"s","t","r","a","t","e","g","y">>,
        <<"p","l","a","n","n","i","n","g">>,
        <<"r","o","a","d","m","a","p">>,
        <<"b","u","s","i","n","e","s","s"," ","m","o","d","e","l">>,
        <<"g","o","a","l","s">>,
        <<"o","b","j","e","c","t","i","v","e","s">>,
        <<"v","i","s","i","o","n">>,
        <<"m","i","s","s","i","o","n">>,
        <<"s","t","r","a","t","e","g","y"," ","p","l","a","n","n","i","n","g">>,
        <<"b","u","s","i","n","e","s","s"," ","p","l","a","n","n","i","n","g">>,
        <<"m","a","r","k","e","t"," ","a","n","a","l","y","s","i","s">> >>],
    [key |-> "agile", keywords |-> <<
        <<"s","p","r","i","n","t">>,
        <<"s","c","r","u","m">>,
        <<"a","g","i","l","e">>,
        <<"r","e","t","r","o","s","p","e","c","t","i","v","e">>,
        <<"s","t","a","n","d","u","p">>,
        <<"b","a","c","k","l","o","g">>,
        <<"u","s","e","r"," ","s","t","o","r","i","e","s">>,
        <<"k","a","n","b","a","n">>,
        <<"v","e","l","o","c","i","t","y">>,
        <<"s","t","o","r","y"," ","p","o","i","n","t","s">>,
        <<"s","p","r","i","n","t"," ","p","l","a","n","n","i","n","g">>,
        <<"d","a","i","l","y"," ","s","t","a","n","d","u","p">>,
        <<"s","p","r","i","n","t"," ","r","e","v","i","e","w">>,
        <<"b","u","r","n","d","o","w","n">>,
        <<"e","p","i","c">>,
        <<"f","e","a","t","u","r","e">> >>],
    [key |-> "mapping", keywords |-> <<
        <<"m","a","p","p","i","n","g">>,
        <<"d","i","a","g","r","a","m">>,
        <<"f","l","o","w","c","h","a","r","t">>,
        <<"p","r","o","c","e","s","s">>,
        <<"w","o","r","k","f","l","o","w">>,
        <<"s","w","i","m","l","a","n","e">>,
        <<"s","t","a","k","e","h","o","l","d","e","r">>,
        <<"u","m","l">>,
        <<"s","y","s","t","e","m">>,
        <<"a","r","c","h","i","t","e","c","t","u","r","e">> >>] >>

\* templateCategories of MiroClient.analyzeContentForTemplates
ClientTaxonomy == <<
    [key |-> "workshops", keywords |-> <<
        <<"w","o","r","k","s","h","o","p">>,
        <<"f","a","c","i","l","i","t","a","t","i","o","n">>,
        <<"m","e","e","t","i","n","g">>,
        <<"c","o","l","l","a","b","o","r","a","t","i","o","n">>,
        <<"t","e","a","m"," ","b","u","i","l","d","i","n","g">>,
        <<"i","c","e","b","r","e","a","k","e","r">>,
        <<"s","e","s","s","i","o","n">> >>],
    [key |-> "brainstorming", keywords |-> <<
        <<"i","d","e","a","s">>,
        <<"c","r","e","a","t","i","v","i","t","y">>,
        <<"i","n","n","o","v","a","t","i","o","n">>,
        <<"b","r","a","i","n","s","t","o","r","m">>,
        <<"i","d","e","a","t","i","o","n">>,
        <<"c","o","n","c","e","p","t","s">>,
        <<"m","i","n","d"," ","m","a","p">> >>],
    [key |-> "research", keywords |-> <<
        <<"r","e","s","e","a","r","c","h">>,
        <<"u","s","e","r"," ","r","e","s","e","a","r","c","h">>,
        <<"c","u","s","t","o","m","e","r"," ","i","n","s","i","g","h","t","s">>,
        <<"u","s","e","r"," ","e","x","p","e","r","i","e","n","c","e">>,
        <<"u","x">>,
        <<"p","e","r","s","o","n","a">> >>],
    [key |-> "strategic_planning", keywords |-> <<
        <<"s","t","r","a","t","e","g","y">>,
        <<"p","l","a","n","n","i","n","g">>,
        <<"r","o","a","d","m","a","p">>,
        <<"b","u","s","i","n","e","s","s"," ","m","o","d","e","l">>,
        <<"g","o","a","l","s">>,
        <<"o","b","j","e","c","t","i","v","e","s">>,
        <<"v","i","s","i","o","n">> >>],
    [key |-> "agile", keywords |-> <<
        <<"s","p","r","i","n","t">>,
        <<"s","c","r","u","m">>,
        <<"a","g","i","l","e">>,
        <<"r","e","t","r","o","s","p","e","c","t","i","v","e">>,
        <<"s","t","a","n","d","u","p">>,
        <<"b","a","c","k","l","o","g">>,
        <<"u","s","e","r"," ","s","t","o","r","i","e","s">>,
        <<"k","a","n","b","a","n">> >>],
    [key |-> "mapping", keywords |-> <<
        <<"m","a","p","p","i","n","g">>,
        <<"d","i","a","g","r","a","m">>,
        <<"f","l","o","w","c","h","a","r","t">>,
        <<"p","r","o","c","e","s","s">>,
        <<"w","o","r","k","f","l","o","w">>,
        <<"s","w","i","m","l","a","n","e">>,
        <<"s","t","a","k","e","h","o","l","d","e","r">> >>] >>

\* content.join(" ")
RECURSIVE Join(_)
Join(list) ==
    IF list = <<>> THEN <<>>
    ELSE IF Len(list) = 1 THEN list[1]
    ELSE list[1] \o <<" ">> \o Join(Tail(list))

\* keywords.filter(keyword => allText.includes(keyword.toLowerCase()))
ServerMatchingKeywords(allText, keywords) ==
    SelectSeq(keywords, LAMBDA kw : Includes(allText, ToLowerCase(kw)))

\* keywords.filter(keyword => allText.includes(keyword))
ClientMatchingKeywords(allText, keywords) ==
    SelectSeq(keywords, LAMBDA kw : Includes(allText, kw))

\* the loop over Object.entries(taxonomy): categoryScores in insertion
\* order, as a sequence of [category, score] entries
RECURSIVE ServerCategoryScores(_, _, _)
ServerCategoryScores(allText, taxonomy, i) ==
    IF i > Len(taxonomy) THEN <<>>
    ELSE LET matchingKeywords ==
                 ServerMatchingKeywords(allText, taxonomy[i].keywords)
         IN  (IF Len(matchingKeywords) > 0
              THEN <<[category |-> taxonomy[i].key,
                      score |-> Len(matchingKeywords),
                      matching |-> matchingKeywords]>>
              ELSE <<>>)
             \o ServerCategoryScores(allText, taxonomy, i + 1)

RECURSIVE ClientCategoryScores(_, _, _)
ClientCategoryScores(allText, taxonomy, i) ==
    IF i > Len(taxonomy) THEN <<>>
    ELSE LET matchingKeywords ==
                 ClientMatchingKeywords(allText, taxonomy[i].keywords)
         IN  (IF Len(matchingKeywords) > 0
              THEN <<[category |-> taxonomy[i].key,
                      score |-> Len(matchingKeywords),
                      matching |-> matchingKeywords]>>
              ELSE <<>>)
             \o ClientCategoryScores(allText, taxonomy, i + 1)

\* mutant: the comparator puts an entry of equal score in front
CategoryComesBeforeOrEqual(x, y) == x.score >= y.score

\* the comparator ([, a], [, b]) => b - a is negative: x sorts before y
CategoryComesBefore(x, y) == x.score > y.score

\* Array.prototype.sort is stable
RECURSIVE InsertCategory(_, _)
InsertCategory(sorted, x) ==
    IF sorted = <<>> THEN <<x>>
    ELSE IF CategoryComesBefore(x, sorted[Len(sorted)])
         THEN Append(InsertCategory(SubSeq(sorted, 1, Len(sorted) - 1), x),
                     sorted[Len(sorted)])
         ELSE Append(sorted, x)

RECURSIVE SortCategoriesFrom(_, _, _)
SortCategoriesFrom(entries, i, sorted) ==
    IF i > Len(entries) THEN sorted
    ELSE SortCategoriesFrom(entries, i + 1, InsertCategory(sorted, entries[i]))

\* Object.entries(categoryScores).sort(...).map(([category]) => category)
SortedCategories(entries) ==
    LET sorted == SortCategoriesFrom(entries, 1, <<>>)
    IN  [i \in 1..Len(sorted) |-> sorted[i].category]

\* foundKeywords.push(...matchingKeywords) for every matched category
RECURSIVE FoundKeywords(_)
FoundKeywords(entries) ==
    IF entries = <<>> THEN <<>>
    ELSE Head(entries).matching \o FoundKeywords(Tail(entries))

\* [...new Set(list)]: first occurrences, in order
RECURSIVE Distinct(_)
Distinct(list) ==
    IF list = <<>> THEN <<>>
    ELSE LET front == Distinct(SubSeq(list, 1, Len(list) - 1))
             last == list[Len(list)]
         IN  IF \E i \in 1..Len(front) : front[i] = last
             THEN front ELSE Append(front, last)

\* contextMap of generateContextDescription: display names by category key
ContextMap == <<
    [key |-> "agile",
     name |-> <<"A","g","i","l","e","/","S","c","r","u","m"," ","m","e","t","h","o","d","o","l","o","g","y">>],
    [key |-> "design",
     name |-> <<"D","e","s","i","g","n"," ","a","n","d"," ","U","X"," ","w","o","r","k">>],
    [key |-> "planning",
     name |-> <<"S","t","r","a","t","e","g","i","c"," ","p","l","a","n","n","i","n","g">>],
    [key |-> "brainstorming",
     name |-> <<"I","d","e","a","t","i","o","n"," ","a","n","d"," ","c","r","e","a","t","i","v","i","t","y">>],
    [key |-> "analysis",
     name |-> <<"R","e","s","e","a","r","c","h"," ","a","n","d"," ","a","n","a","l","y","s","i","s">>],
    [key |-> "workshops",
     name |-> <<"T","e","a","m"," ","c","o","l","l","a","b","o","r","a","t","i","o","n"," ","a","n","d"," ","w","o","r","k","s","h","o","p","s">>],
    [key |-> "meetings",
     name |-> <<"M","e","e","t","i","n","g"," ","m","a","n","a","g","e","m","e","n","t"," ","a","n","d"," ","f","o","l","l","o","w","-","u","p">>],
    [key |-> "research",
     name |-> <<"R","e","s","e","a","r","c","h"," ","a","n","d"," ","u","s","e","r"," ","i","n","s","i","g","h","t","s">>],
    [key |-> "strategic_planning",
     name |-> <<"S","t","r","a","t","e","g","i","c"," ","b","u","s","i","n","e","s","s"," ","p","l","a","n","n","i","n","g">>],
    [key |-> "mapping",
     name |-> <<"P","r","o","c","e","s","s"," ","m","a","p","p","i","n","g"," ","a","n","d"," ","d","i","a","g","r","a","m","m","i","n","g">>] >>

\* contextMap[cat], kept by filter(Boolean) only when the key has an entry
ContextOf(cat) ==
    LET hits == SelectSeq(ContextMap, LAMBDA e : e.key = cat)
    IN  IF hits = <<>> THEN <<>> ELSE <<hits[1].name>>

\* categories.slice(0, 3)
TopThree(categories) == SubSeq(categories, 1, Min(3, Len(categories)))

\* list.join(", ")
RECURSIVE JoinComma(_)
JoinComma(list) ==
    IF list = <<>> THEN <<>>
    ELSE IF Len(list) = 1 THEN list[1]
    ELSE list[1] \o <<",", " ">> \o JoinComma(Tail(list))

\* .map(cat => contextMap[cat]).filter(Boolean)
RECURSIVE Contexts(_)
Contexts(categories) ==
    IF categories = <<>> THEN <<>>
    ELSE ContextOf(Head(categories)) \o Contexts(Tail(categories))

FocusPrefix == <<"C","o","n","t","e","n","t"," ","a","p","p","e","a","r","s"," ","t","o"," ","f","o","c","u","s"," ","o","n",":"," ">>

GeneralCollaborativeWork == <<"G","e","n","e","r","a","l"," ","c","o","l","l","a","b","o","r","a","t","i","v","e"," ","w","o","r","k">>

\* generateContextDescription(categories), the same in the server and in
\* TemplateRecommendationEngine
GenerateContextDescription(categories) ==
    LET contexts == Contexts(TopThree(categories))
    IN  IF Len(contexts) > 0
        THEN FocusPrefix \o JoinComma(contexts)
        ELSE GeneralCollaborativeWork

\* the characters of a category key
KeyText(key) ==
    CASE key = "workshops" ->
             <<"w","o","r","k","s","h","o","p","s">>
      [] key = "brainstorming" ->
             <<"b","r","a","i","n","s","t","o","r","m","i","n","g">>
      [] key = "research" ->
             <<"r","e","s","e","a","r","c","h">>
      [] key = "strategic_planning" ->
             <<"s","t","r","a","t","e","g","i","c","_","p","l","a","n","n","i","n","g">>
      [] key = "agile" ->
             <<"a","g","i","l","e">>
      [] key = "mapping" ->
             <<"m","a","p","p","i","n","g">>

\* the context of MiroClient.analyzeContentForTemplates: the category keys
\* themselves are joined
ClientContext(sortedCategories) ==
    IF Len(sortedCategories) > 0
    THEN LET top == TopThree(sortedCategories)
         IN  FocusPrefix \o JoinComma([i \in 1..Len(top) |-> KeyText(top[i])])
    ELSE GeneralCollaborativeWork

\* MiroTemplateRecommenderServer.analyzeContent
AnalyzeContent(list) ==
    LET allText == ToLowerCase(Join(list))
        categoryScores == ServerCategoryScores(allText, ServerTaxonomy, 1)
    IN  [done |-> TRUE, impl |-> "server",
         keywords |-> Distinct(FoundKeywords(categoryScores)),
         categories |-> SortedCategories(categoryScores),
         context |->
             GenerateContextDescription(SortedCategories(categoryScores))]

\* MiroClient.analyzeContentForTemplates
AnalyzeContentForTemplates(list) ==
    LET allText == ToLowerCase(Join(list))
        categoryScores == ClientCategoryScores(allText, ClientTaxonomy, 1)
    IN  [done |-> TRUE, impl |-> "client",
         keywords |-> Distinct(FoundKeywords(categoryScores)),
         categories |-> SortedCategories(categoryScores),
         context |-> ClientContext(SortedCategories(categoryScores))]

\* templateCategories of TemplateRecommendationEngine: keywords and weight
\* (in tenths) by category, in declaration order
TemplateCategories == <<
    [key |-> "workshops", weightTenths |-> 9,
     keywords |-> <<
        <<"w","o","r","k","s","h","o","p">>,
        <<"f","a","c","i","l","i","t","a","t","i","o","n">>,
        <<"m","e","e","t","i","n","g">>,
        <<"c","o","l","l","a","b","o","r","a","t","i","o","n">>,
        <<"t","e","a","m"," ","b","u","i","l","d","i","n","g">>,
        <<"i","c","e","b","r","e","a","k","e","r">>,
        <<"s","e","s","s","i","o","n">>,
        <<"a","t","t","e","n","d","e","e","s">>,
        <<"p","a","r","t","i","c","i","p","a","n","t","s">>,
        <<"d","i","s","c","u","s","s","i","o","n">>,
        <<"f","a","c","i","l","i","t","a","t","e","d">>,
        <<"b","r","e","a","k","o","u","t">>,
        <<"g","r","o","u","p"," ","e","x","e","r","c","i","s","e">>,
        <<"t","e","a","m"," ","a","c","t","i","v","i","t","y">> >>],
    [key |-> "brainstorming", weightTenths |-> 10,
     keywords |-> <<
        <<"i","d","e","a","s">>,
        <<"c","r","e","a","t","i","v","i","t","y">>,
        <<"i","n","n","o","v","a","t","i","o","n">>,
        <<"b","r","a","i","n","s","t","o","r","m">>,
        <<"i","d","e","a","t","i","o","n">>,
        <<"c","o","n","c","e","p","t","s">>,
        <<"m","i","n","d"," ","m","a","p">>,
        <<"c","r","e","a","t","i","v","e"," ","t","h","i","n","k","i","n","g">>,
        <<"g","e","n","e","r","a","t","e"," ","i","d","e","a","s">>,
        <<"e","x","p","l","o","r","e"," ","o","p","t","i","o","n","s">>,
        <<"t","h","i","n","k"," ","o","u","t","s","i","d","e">>,
        <<"c","r","e","a","t","i","v","e"," ","s","e","s","s","i","o","n">>,
        <<"i","d","e","a"," ","g","e","n","e","r","a","t","i","o","n">> >>],
    [key |-> "research", weightTenths |-> 10,
     keywords |-> <<
        <<"r","e","s","e","a","r","c","h">>,
        <<"u","s","e","r"," ","r","e","s","e","a","r","c","h">>,
        <<"m","a","r","k","e","t"," ","r","e","s","e","a","r","c","h">>,
        <<"c","u","s","t","o","m","e","r"," ","i","n","s","i","g","h","t","s">>,
        <<"u","s","e","r"," ","e","x","p","e","r","i","e","n","c","e">>,
        <<"u","x">>,
        <<"d","e","s","i","g","n"," ","r","e","s","e","a","r","c","h">>,
        <<"u","s","e","r"," ","t","e","s","t","i","n","g">>,
        <<"c","u","s","t","o","m","e","r"," ","j","o","u","r","n","e","y">>,
        <<"p","e","r","s","o","n","a">>,
        <<"u","s","e","r"," ","f","e","e","d","b","a","c","k">> >>],
    [key |-> "strategic_planning", weightTenths |-> 10,
     keywords |-> <<
        <<"s","t","r","a","t","e","g","y">>,
        <<"p","l","a","n","n","i","n","g">>,
        <<"r","o","a","d","m","a","p">>,
        <<"b","u","s","i","n","e","s","s"," ","m","o","d","e","l">>,
        <<"g","o","a","l","s">>,
        <<"o","b","j","e","c","t","i","v","e","s">>,
        <<"v","i","s","i","o","n">>,
        <<"m","i","s","s","i","o","n">>,
        <<"s","t","r","a","t","e","g","y"," ","p","l","a","n","n","i","n","g">>,
        <<"b","u","s","i","n","e","s","s"," ","p","l","a","n","n","i","n","g">>,
        <<"m","a","r","k","e","t"," ","a","n","a","l","y","s","i","s">> >>],
    [key |-> "agile", weightTenths |-> 12,
     keywords |-> <<
        <<"s","p","r","i","n","t">>,
        <<"s","c","r","u","m">>,
        <<"a","g","i","l","e">>,
        <<"r","e","t","r","o","s","p","e","c","t","i","v","e">>,
        <<"s","t","a","n","d","u","p">>,
        <<"b","a","c","k","l","o","g">>,
        <<"u","s","e","r"," ","s","t","o","r","i","e","s">>,
        <<"k","a","n","b","a","n">>,
        <<"v","e","l","o","c","i","t","y">>,
        <<"s","t","o","r","y"," ","p","o","i","n","t","s">>,
        <<"s","p","r","i","n","t"," ","p","l","a","n","n","i","n","g">>,
        <<"d","a","i","l","y"," ","s","t","a","n","d","u","p">>,
        <<"s","p","r","i","n","t"," ","r","e","v","i","e","w">>,
        <<"b","u","r","n","d","o","w","n">>,
        <<"e","p","i","c">>,
        <<"f","e","a","t","u","r","e">> >>],
    [key |-> "mapping", weightTenths |-> 10,
     keywords |-> <<
        <<"m","a","p","p","i","n","g">>,
        <<"d","i","a","g","r","a","m">>,
        <<"f","l","o","w","c","h","a","r","t">>,
        <<"p","r","o","c","e","s","s">>,
        <<"w","o","r","k","f","l","o","w">>,
        <<"s","w","i","m","l","a","n","e">>,
        <<"s","t","a","k","e","h","o","l","d","e","r">>,
        <<"u","m","l">>,
        <<"s","y","s","t","e","m">>,
        <<"a","r","c","h","i","t","e","c","t","u","r","e">> >>] >>

\* Math.ceil(matchingKeywords.length * categoryData.weight)
WeightedCount(matches, weightTenths) == (matches * weightTenths + 9) \div 10

\* weightedCount copies of the category
Replicate(category, n) == [i \in 1..n |-> category]

\* the loop over Object.entries(templateCategories): foundKeywords and
\* matchedCategories after category i and the ones behind it
RECURSIVE WeightedMatches(_, _)
WeightedMatches(allText, i) ==
    IF i > Len(TemplateCategories) THEN [keywords |-> <<>>, categories |-> <<>>]
    ELSE LET matchingKeywords ==
                 ServerMatchingKeywords(allText, TemplateCategories[i].keywords)
             rest == WeightedMatches(allText, i + 1)
         IN  IF Len(matchingKeywords) > 0
             THEN [keywords |-> matchingKeywords \o rest.keywords,
                   categories |->
                       Replicate(TemplateCategories[i].key,
                                 WeightedCount(Len(matchingKeywords),
                                     TemplateCategories[i].weightTenths))
                       \o rest.categories]
             ELSE rest

\* TemplateRecommendationEngine.analyzeContentForKeywords
AnalyzeContentForKeywords(list) ==
    LET allText == ToLowerCase(Join(list))
        found == WeightedMatches(allText, 1)
        uniqueCategories == Distinct(found.categories)
    IN  [done |-> TRUE, impl |-> "weighted",
         keywords |-> Distinct(found.keywords),
         categories |-> uniqueCategories,
         context |-> GenerateContextDescription(uniqueCategories)]

-----------------------------------------------------------------------------
(* SpecCat: content analysis of arrays of phrases *)

PhrasePool == {
    <<"S","p","r","i","n","t"," ","r","e","t","r","o","s","p","e","c","t","i","v","e">>,
    <<"W","o","r","k","s","h","o","p"," ","i","d","e","a","s">>,
    <<"P","r","o","c","e","s","s"," ","d","i","a","g","r","a","m">>,
    <<"R","o","a","d","m","a","p">>,
    <<"U","X"," ","R","e","s","e","a","r","c","h">>,
    <<"S","c","r","u","m">>,
    <<"l","u","n","c","h">> }

CatInit ==
    /\ catContent \in ArraysOf(PhrasePool, MaxPhrases)
    /\ analysis = [done |-> FALSE]
    /\ SimPinned /\ SumPinned /\ NormPinned /\ RecPinned /\ GongPinned /\ RetryPinned /\ FetchPinned

\* analyzeContent(content) of the server
DoAnalyzeContent ==
    /\ ~analysis.done
    /\ analysis' = AnalyzeContent(catContent)
    /\ UNCHANGED <<simA, simB, simOut, content, maxItems, result,
                   htmlContent, cleaned, catContent,
                   maxRecommendations, recommendations,
                   gongCalls, customerName, fromDate, toDate, searchOut,
                   selectionNumber, selectOut,
                   attempt, fetchLog, retryPc, retryWait, thrown,
                   gongServer, gongCache, invocation, boardTool, miroRun,
                   toolResponse>>

\* analyzeContentForTemplates(content) of the client
DoAnalyzeContentForTemplates ==
    /\ ~analysis.done
    /\ analysis' = AnalyzeContentForTemplates(catContent)
    /\ UNCHANGED <<simA, simB, simOut, content, maxItems, result,
                   htmlContent, cleaned, catContent,
                   maxRecommendations, recommendations,
                   gongCalls, customerName, fromDate, toDate, searchOut,
                   selectionNumber, selectOut,
                   attempt, fetchLog, retryPc, retryWait, thrown,
                   gongServer, gongCache, invocation, boardTool, miroRun,
                   toolResponse>>

CatNext == DoAnalyzeContent \/ DoAnalyzeContentForTemplates

SpecCat == CatInit /\ [][CatNext]_vars

\* analyzeContentForKeywords(content) of TemplateRecommendationEngine
DoAnalyzeContentForKeywords ==
    /\ ~analysis.done
    /\ analysis' = AnalyzeContentForKeywords(catContent)
    /\ UNCHANGED <<simA, simB, simOut, content, maxItems, result,
                   htmlContent, cleaned, catContent,
                   maxRecommendations, recommendations,
                   gongCalls, customerName, fromDate, toDate, searchOut,
                   selectionNumber, selectOut,
                   attempt, fetchLog, retryPc, retryWait, thrown,
                   gongServer, gongCache, invocation, boardTool, miroRun,
                   toolResponse>>

\* the three analysis entry points
AnalysisNext ==
    \/ DoAnalyzeContent
    \/ DoAnalyzeContentForTemplates
    \/ DoAnalyzeContentForKeywords

SpecAnalysis == CatInit /\ [][AnalysisNext]_vars

-----------------------------------------------------------------------------
(* Claims about the content analysis *)

\* the taxonomy an analysis used
TaxonomyOf(impl) ==
    IF impl = "server" THEN ServerTaxonomy
    ELSE IF impl = "client" THEN ClientTaxonomy
    ELSE TemplateCategories

\* number of keywords of taxonomy entry k that occur, case-insensitively, as
\* a substring of the joined text
MatchCount(impl, k) ==
    LET text == ToLowerCase(Join(catContent))
        kws == TaxonomyOf(impl)[k].keywords
    IN  Cardinality({n \in 1..Len(kws) : Includes(text, ToLowerCase(kws[n]))})

\* declaration index of a category key
DeclIndex(impl, key) ==
    CHOOSE k \in 1..Len(TaxonomyOf(impl)) : TaxonomyOf(impl)[k].key = key

\* C10: the category list holds exactly the taxonomy categories with at least
\* one keyword occurring in the joined text, each once, ordered by descending
\* number of matched keywords, ties in taxonomy declaration order.
C10_CategoriesRankedByMatchCount ==
    analysis.done =>
        LET cats == analysis.categories
            tax == TaxonomyOf(analysis.impl)
        IN  /\ {cats[i] : i \in 1..Len(cats)}
                   = {tax[k].key : k \in {k \in 1..Len(tax) :
                                             MatchCount(analysis.impl, k) > 0}}
            /\ \A i, j \in 1..Len(cats) : i # j => cats[i] # cats[j]
            /\ \A i, j \in 1..Len(cats) :
                   i < j =>
                       LET ci == MatchCount(analysis.impl, DeclIndex(analysis.impl, cats[i]))
                           cj == MatchCount(analysis.impl, DeclIndex(analysis.impl, cats[j]))
                       IN  \/ ci > cj
                           \/ ci = cj /\ DeclIndex(analysis.impl, cats[i])
                                             < DeclIndex(analysis.impl, cats[j])

\* four categories matched: two with two keywords each, ranked in front in
\* declaration order although they were matched by later phrases, and two
\* with one keyword each
C10_Witness ==
    /\ analysis.done
    /\ analysis.impl = "server"
    /\ analysis.categories = <<"agile", "mapping", "workshops", "brainstorming">>

-----------------------------------------------------------------------------
(* Claims about the weighted analysis and the context string *)

\* ceil(matchCount x weight) of a category key, from the analysed content
WeightedScore(key) ==
    LET k == DeclIndex("weighted", key)
    IN  WeightedCount(MatchCount("weighted", k), TemplateCategories[k].weightTenths)

\* C11: in the weighted analysis no category is listed behind a category of
\* strictly smaller weighted score ceil(matchCount x weight).
C11_WeightedCategoriesRankedByWeightedScore ==
    (analysis.done /\ analysis.impl = "weighted") =>
        \A i, j \in 1..Len(analysis.categories) :
            i < j => WeightedScore(analysis.categories[i])
                         >= WeightedScore(analysis.categories[j])

\* the display names of the first three ranked keys that have one, in order
TopDisplayNames(categories) ==
    LET n == IF Len(categories) < 3 THEN Len(categories) ELSE 3
        named == SelectSeq([i \in 1..n |-> categories[i]],
                           LAMBDA key : \E e \in 1..Len(ContextMap) :
                                            ContextMap[e].key = key)
    IN  [i \in 1..Len(named) |->
            ContextMap[CHOOSE e \in 1..Len(ContextMap) :
                           ContextMap[e].key = named[i]].name]

\* C12: the context of an analysis, whatever its entry point, is "General
\* collaborative work" exactly when none of the first three ranked category
\* keys has a display name (in particular when nothing matched); otherwise
\* it is "Content appears to focus on: " followed by the comma-joined
\* display names of the first three ranked keys.
C12_ContextNamesTopThreeCategories ==
    analysis.done =>
        LET names == TopDisplayNames(analysis.categories)
        IN  /\ (analysis.context = GeneralCollaborativeWork) <=> (names = <<>>)
            /\ names # <<>> =>
                   analysis.context = FocusPrefix \o JoinComma(names)

-----------------------------------------------------------------------------
(* Template recommendations *)

\* the template names of TEMPLATE_CATEGORIES, by category
ServerTemplates == <<
    [key |-> "workshops",
     templates |-> <<"Workshop Agenda",
                     "Icebreaker Activities",
                     "Team Charter",
                     "Event Planning",
                     "Team Meeting Agenda",
                     "One-on-one Meeting",
                     "Parking Lot Matrix",
                     "Design Sprint",
                     "Meet the Team Template">>],
    [key |-> "brainstorming",
     templates |-> <<"Mind Map",
                     "Affinity Diagram",
                     "Parking Lot Matrix Template",
                     "Fishbone Diagram",
                     "Likert Scale",
                     "Brainwriting",
                     "SCAMPER",
                     "Six Thinking Hats",
                     "Random Words",
                     "Reverse Brainstorming">>],
    [key |-> "research",
     templates |-> <<"Customer Journey Map",
                     "Customer Touchpoint Map",
                     "Service Blueprint",
                     "User Persona",
                     "Empathy Map",
                     "User Interview",
                     "Competitive Analysis",
                     "Research Insights Synthesis",
                     "User Research Kick-Off Canvas">>],
    [key |-> "strategic_planning",
     templates |-> <<"Business Model Canvas",
                     "Technology Roadmap",
                     "Go-to-Market Strategy",
                     "Marketing Funnel",
                     "Content Strategy",
                     "SWOT Analysis",
                     "Porter's Five Forces",
                     "Thematic Roadmapping (Vision & Strategy)",
                     "OKR Planning",
                     "Vision Board">>],
    [key |-> "agile",
     templates |-> <<"Agile Board",
                     "Sprint Planning",
                     "Retrospective",
                     "Conversion Funnel Backlog",
                     "Kanban Framework Template",
                     "User Story Mapping Template",
                     "Sprint Review",
                     "Daily Standup",
                     "Agile Roadmap">>],
    [key |-> "mapping",
     templates |-> <<"UML Diagram",
                     "Swimlane Diagram Template",
                     "Stakeholder Mapping",
                     "Flowchart",
                     "Process Map",
                     "AWS Architecture Diagram Template",
                     "Google Cloud Architecture Diagram Template",
                     "Kubernetes Architecture Diagram Template",
                     "GenAI Application Workflow",
                     "Business Case Canvas">>] >>

\* templates of generateTemplateRecommendations, by category
ClientTemplates == <<
    [key |-> "workshops",
     templates |-> <<"Workshop Agenda",
                     "Icebreaker Activities",
                     "Team Charter">>],
    [key |-> "brainstorming",
     templates |-> <<"Mind Map",
                     "Affinity Diagram",
                     "SCAMPER">>],
    [key |-> "research",
     templates |-> <<"Customer Journey Map",
                     "User Persona",
                     "Empathy Map">>],
    [key |-> "strategic_planning",
     templates |-> <<"Business Model Canvas",
                     "SWOT Analysis",
                     "OKR Planning">>],
    [key |-> "agile",
     templates |-> <<"Sprint Planning",
                     "Retrospective",
                     "Kanban Framework">>],
    [key |-> "mapping",
     templates |-> <<"Flowchart",
                     "Process Map",
                     "Stakeholder Mapping">>] >>

\* categoryKeywords of calculateTemplateRelevance, by category
ClientRelevantKeywords == <<
    [key |-> "workshops",
     keywords |-> <<
        <<"w","o","r","k","s","h","o","p">>,
        <<"f","a","c","i","l","i","t","a","t","i","o","n">>,
        <<"m","e","e","t","i","n","g">>,
        <<"c","o","l","l","a","b","o","r","a","t","i","o","n">> >>],
    [key |-> "brainstorming",
     keywords |-> <<
        <<"i","d","e","a","s">>,
        <<"c","r","e","a","t","i","v","i","t","y">>,
        <<"i","n","n","o","v","a","t","i","o","n">>,
        <<"b","r","a","i","n","s","t","o","r","m">> >>],
    [key |-> "research",
     keywords |-> <<
        <<"r","e","s","e","a","r","c","h">>,
        <<"u","s","e","r">>,
        <<"c","u","s","t","o","m","e","r">>,
        <<"u","x">> >>],
    [key |-> "strategic_planning",
     keywords |-> <<
        <<"s","t","r","a","t","e","g","y">>,
        <<"p","l","a","n","n","i","n","g">>,
        <<"b","u","s","i","n","e","s","s">>,
        <<"g","o","a","l","s">> >>],
    [key |-> "agile",
     keywords |-> <<
        <<"s","p","r","i","n","t">>,
        <<"s","c","r","u","m">>,
        <<"a","g","i","l","e">>,
        <<"r","e","t","r","o","s","p","e","c","t","i","v","e">> >>],
    [key |-> "mapping",
     keywords |-> <<
        <<"m","a","p","p","i","n","g">>,
        <<"d","i","a","g","r","a","m">>,
        <<"p","r","o","c","e","s","s">>,
        <<"w","o","r","k","f","l","o","w">> >>] >>

\* TEMPLATE_CATEGORIES[category]
ServerCategoryIndex(category) ==
    CHOOSE k \in 1..Len(ServerTaxonomy) : ServerTaxonomy[k].key = category

\* list.includes(k)
Contains(list, k) == \E n \in 1..Len(list) : list[n] = k

\* calculateRelevanceScore(keywords, category) of the server:
\* matches / categoryKeywords.length, kept as a fraction
CalculateRelevanceScore(keywords, category) ==
    LET categoryKeywords == ServerTaxonomy[ServerCategoryIndex(category)].keywords
        matches == Len(SelectSeq(keywords,
                                 LAMBDA k : Contains(categoryKeywords, k)))
    IN  [num |-> matches, den |-> Len(categoryKeywords)]

\* calculateTemplateRelevance(keywords, category) of the client:
\* Math.min((matches / relevantKeywords.length) * 100, 100), as a fraction
CalculateTemplateRelevance(keywords, category) ==
    LET relevantKeywords ==
            ClientRelevantKeywords[CHOOSE k \in 1..Len(ClientRelevantKeywords) :
                ClientRelevantKeywords[k].key = category].keywords
        matches == Len(SelectSeq(keywords,
                                 LAMBDA k : Contains(relevantKeywords, k)))
    IN  [num |-> Min(matches * 100, 100 * Len(relevantKeywords)),
         den |-> Len(relevantKeywords)]

\* the loop of generateRecommendations over analysis.categories: every
\* template of every category, in order
RECURSIVE ServerCandidates(_, _, _)
ServerCandidates(keywords, categories, i) ==
    IF i > Len(categories) THEN <<>>
    ELSE LET category == categories[i]
             categoryTemplates ==
                 ServerTemplates[ServerCategoryIndex(category)].templates
         IN  [t \in 1..Len(categoryTemplates) |->
                 [name |-> categoryTemplates[t],
                  category |-> category,
                  relevanceScore |->
                      CalculateRelevanceScore(keywords, category)]]
             \o ServerCandidates(keywords, categories, i + 1)

\* the loops of generateTemplateRecommendations: the first two templates of
\* each of the first three categories
RECURSIVE ClientCandidates(_, _, _)
ClientCandidates(keywords, categories, i) ==
    IF i > Len(categories) THEN <<>>
    ELSE LET category == categories[i]
             categoryTemplates ==
                 ClientTemplates[CHOOSE k \in 1..Len(ClientTemplates) :
                     ClientTemplates[k].key = category].templates
             firstTwo == SubSeq(categoryTemplates, 1,
                                Min(2, Len(categoryTemplates)))
         IN  [t \in 1..Len(firstTwo) |->
                 [name |-> firstTwo[t],
                  category |-> category,
                  relevanceScore |->
                      CalculateTemplateRelevance(keywords, category)]]
             \o ClientCandidates(keywords, categories, i + 1)

\* the comparator (a, b) => b.relevanceScore - a.relevanceScore is negative
RecommendationComesBefore(x, y) ==
    x.relevanceScore.num * y.relevanceScore.den
        > y.relevanceScore.num * x.relevanceScore.den

\* Array.prototype.sort is stable
RECURSIVE InsertRecommendation(_, _)
InsertRecommendation(sorted, x) ==
    IF sorted = <<>> THEN <<x>>
    ELSE IF RecommendationComesBefore(x, sorted[Len(sorted)])
         THEN Append(InsertRecommendation(SubSeq(sorted, 1, Len(sorted) - 1), x),
                     sorted[Len(sorted)])
         ELSE Append(sorted, x)

RECURSIVE SortRecommendationsFrom(_, _, _)
SortRecommendationsFrom(entries, i, sorted) ==
    IF i > Len(entries) THEN sorted
    ELSE LET next == InsertRecommendation(sorted, entries[i])
         IN  IF Len(next) = i
             THEN SortRecommendationsFrom(entries, i + 1, next)
             ELSE next

\* recommendations.sort(...).slice(0, maxRecommendations)
SortAndTruncate(candidates, cap) ==
    Slice(SortRecommendationsFrom(candidates, 1, <<>>), cap)

\* MiroTemplateRecommenderServer.generateRecommendations
GenerateRecommendations(a, cap) ==
    LET candidates == ServerCandidates(a.keywords, a.categories, 1)
    IN  [done |-> TRUE, impl |-> "server", candidates |-> candidates,
         list |-> SortAndTruncate(candidates, cap)]

\* MiroClient.generateTemplateRecommendations
GenerateTemplateRecommendations(a, cap) ==
    LET candidates == ClientCandidates(a.keywords, TopThree(a.categories), 1)
    IN  [done |-> TRUE, impl |-> "client", candidates |-> candidates,
         list |-> SortAndTruncate(candidates, cap)]

-----------------------------------------------------------------------------
(* SpecRec: recommendations for arrays of phrases and a cap *)

RecPhrasePool == {
    <<"U","X"," ","R","e","s","e","a","r","c","h">>,
    <<"W","o","r","k","s","h","o","p"," ","i","d","e","a","s">>,
    <<"R","o","a","d","m","a","p">>,
    <<"S","c","r","u","m">>,
    <<"l","u","n","c","h">> }

RecInit ==
    /\ catContent \in ArraysOf(RecPhrasePool, MaxRecPhrases)
    /\ maxRecommendations \in (0 - NegRecommendations)..MaxRecommendations
    /\ analysis = [done |-> FALSE]
    /\ recommendations = [done |-> FALSE]
    /\ SimPinned /\ SumPinned /\ NormPinned /\ GongPinned /\ RetryPinned /\ FetchPinned

\* recommendTemplates of the server, from the extracted content on:
\* analyzeContent, then generateRecommendations
DoRecommendTemplates ==
    /\ ~recommendations.done
    /\ analysis' = AnalyzeContent(catContent)
    /\ recommendations' =
           GenerateRecommendations(AnalyzeContent(catContent), maxRecommendations)
    /\ UNCHANGED <<simA, simB, simOut, content, maxItems, result,
                   htmlContent, cleaned, catContent, maxRecommendations,
                   gongCalls, customerName, fromDate, toDate, searchOut,
                   selectionNumber, selectOut,
                   attempt, fetchLog, retryPc, retryWait, thrown,
                   gongServer, gongCache, invocation, boardTool, miroRun,
                   toolResponse>>

\* getSmartBoardAnalysis of the client, from the summary on:
\* analyzeContentForTemplates, then generateTemplateRecommendations
DoGetSmartBoardAnalysis ==
    /\ ~recommendations.done
    /\ analysis' = AnalyzeContentForTemplates(catContent)
    /\ recommendations' =
           GenerateTemplateRecommendations(AnalyzeContentForTemplates(catContent),
                                           maxRecommendations)
    /\ UNCHANGED <<simA, simB, simOut, content, maxItems, result,
                   htmlContent, cleaned, catContent, maxRecommendations,
                   gongCalls, customerName, fromDate, toDate, searchOut,
                   selectionNumber, selectOut,
                   attempt, fetchLog, retryPc, retryWait, thrown,
                   gongServer, gongCache, invocation, boardTool, miroRun,
                   toolResponse>>

RecNext == DoRecommendTemplates \/ DoGetSmartBoardAnalysis

SpecRec == RecInit /\ [][RecNext]_vars

-----------------------------------------------------------------------------
(* Claims about the recommendations *)

\* relevance score x is strictly higher than y
ScoreHigher(x, y) == x.num * y.den > y.num * x.den

\* C13: the recommendation list has at most maxRecommendations entries (none
\* for a negative cap), is sorted by non-increasing relevanceScore, leaves
\* out no candidate of strictly higher relevanceScore than an entry it
\* returns, and is empty when no category matched.
C13_RecommendationsCappedSortedBest ==
    recommendations.done =>
        LET list == recommendations.list
            returned == {list[i] : i \in 1..Len(list)}
            candidates == {recommendations.candidates[i] :
                              i \in 1..Len(recommendations.candidates)}
        IN  /\ Len(list) <= Max(0, maxRecommendations)
            /\ \A i, j \in 1..Len(list) :
                   i < j => ~ScoreHigher(list[j].relevanceScore,
                                         list[i].relevanceScore)
            /\ \A c \in candidates \ returned : \A r \in returned :
                   ~ScoreHigher(c.relevanceScore, r.relevanceScore)
            /\ analysis.categories = <<>> => list = <<>>

\* C14: every recommended template belongs to one of the first three ranked
\* categories of the analysis.
C14_RecommendationsFromTopThreeCategories ==
    recommendations.done =>
        LET top == Min(3, Len(analysis.categories))
        IN  \A i \in 1..Len(recommendations.list) :
                \E k \in 1..top :
                    recommendations.list[i].category = analysis.categories[k]

\* number of detected keywords that are in the detection keyword list of a
\* category, and the length of that list
DetectedIn(key) ==
    LET kws == TaxonomyOf(analysis.impl)[DeclIndex(analysis.impl, key)].keywords
    IN  Cardinality({n \in 1..Len(kws) :
                        \E d \in 1..Len(analysis.keywords) :
                            analysis.keywords[d] = kws[n]})

KeywordCount(key) ==
    Len(TaxonomyOf(analysis.impl)[DeclIndex(analysis.impl, key)].keywords)

\* C15: on one scale (1, or 100 for a percentage) the relevanceScore of
\* every recommended template is scale x (detected keywords of its category's
\* detection list) / (length of that list), and lies within 0..scale.
C15_RelevanceIsDetectedShareOfCategoryKeywords ==
    recommendations.done =>
        \E scale \in {1, 100} :
            \A i \in 1..Len(recommendations.list) :
                LET r == recommendations.list[i]
                IN  /\ r.relevanceScore.num * KeywordCount(r.category)
                           = scale * DetectedIn(r.category) * r.relevanceScore.den
                    /\ 0 <= r.relevanceScore.num
                    /\ r.relevanceScore.num <= scale * r.relevanceScore.den

-----------------------------------------------------------------------------
(* Call matching of the Gong server: exact word match and fuzzy fallback *)

\* the characters the escaping expression looks for in front of "\]"
EscapeClass == {".", "*", "+", "?", "^", "$", "{", "}", "(", ")", "|", "[", "\\"}

\* customerName.replace(/[.*+?^${}()|[\\]\\]/g, '\\$&'): the character class
\* is closed by the first "]", so a match is a class character followed by
\* the two characters "\" and "]"; each match gets a "\" in front
RECURSIVE EscapeFrom(_, _)
EscapeFrom(s, i) ==
    IF i > Len(s) THEN <<>>
    ELSE IF /\ i + 2 <= Len(s)
            /\ s[i] \in EscapeClass
            /\ s[i + 1] = "\\"
            /\ s[i + 2] = "]"
         THEN <<"\\", s[i], "\\", "]">> \o EscapeFrom(s, i + 3)
         ELSE <<s[i]>> \o EscapeFrom(s, i + 1)

EscapeRegExp(name) == EscapeFrom(name, 1)

\* the pattern between the two \b, read by the regular expression parser,
\* for patterns of letters, digits, spaces, "-" and "+": literal characters
\* and the quantifier "+" behind one. A "+" with nothing to repeat in front
\* of it is a SyntaxError.
RECURSIVE RegExpAtoms(_, _)
RegExpAtoms(p, i) ==
    IF i > Len(p) THEN [ok |-> TRUE, atoms |-> <<>>]
    ELSE IF p[i] = "+" THEN [ok |-> FALSE, atoms |-> <<>>]
    ELSE LET many == i + 1 <= Len(p) /\ p[i + 1] = "+"
             rest == RegExpAtoms(p, IF many THEN i + 2 ELSE i + 1)
         IN  [ok |-> rest.ok,
              atoms |-> <<[ch |-> p[i], many |-> many]>> \o rest.atoms]

\* the positions behind the matches of atoms k.. that start at pos, with the
\* i flag
RECURSIVE RegExpEnds(_, _, _, _)
RegExpEnds(atoms, k, title, pos) ==
    IF k > Len(atoms) THEN {pos}
    ELSE LET hit(q) == /\ q <= Len(title)
                       /\ ToLowerChar(title[q]) = ToLowerChar(atoms[k].ch)
         IN  IF ~hit(pos) THEN {}
             ELSE IF ~atoms[k].many
                  THEN RegExpEnds(atoms, k + 1, title, pos + 1)
                  ELSE UNION {RegExpEnds(atoms, k + 1, title, e + 1) :
                                 e \in {e \in pos..Len(title) :
                                           \A q \in pos..e : hit(q)}}

\* \b in front of position pos: exactly one neighbour is a word character
WordBoundary(title, pos) ==
    (pos - 1 >= 1 /\ title[pos - 1] \in WordChars)
        # (pos <= Len(title) /\ title[pos] \in WordChars)

\* new RegExp("\\b" + pattern + "\\b", "i"): whether it can be built
WordRegexValid(name) == RegExpAtoms(EscapeRegExp(name), 1).ok

\* wordRegex.test(call.title)
WordRegexTest(name, title) ==
    LET atoms == RegExpAtoms(EscapeRegExp(name), 1).atoms
    IN  \E start \in 1..(Len(title) + 1) :
            /\ WordBoundary(title, start)
            /\ \E e \in RegExpEnds(atoms, 1, title, start) :
                   WordBoundary(title, e)

\* text.replace(/[^\w\s]/g, ' ')
PunctuationToSpace(text) ==
    [i \in 1..Len(text) |->
        IF text[i] \in WordChars \cup WhiteSpace THEN text[i] ELSE " "]

\* normalizeText of flexibleMatch
NormalizeText(text) == Trim(CollapseWhitespace(PunctuationToSpace(text)))

\* s.split(' ')
RECURSIVE SplitSpaceFrom(_, _, _)
SplitSpaceFrom(s, i, cur) ==
    IF i > Len(s) THEN <<cur>>
    ELSE IF s[i] = " " THEN <<cur>> \o SplitSpaceFrom(s, i + 1, <<>>)
    ELSE SplitSpaceFrom(s, i + 1, Append(cur, s[i]))

SplitSpace(s) == SplitSpaceFrom(s, 1, <<>>)

\* s.split(/\s+/): a run of white space is one separator
RECURSIVE SplitWhitespaceFrom(_, _, _)
SplitWhitespaceFrom(s, i, cur) ==
    IF i > Len(s) THEN <<cur>>
    ELSE IF s[i] \in WhiteSpace
         THEN IF i + 1 <= Len(s) /\ s[i + 1] \in WhiteSpace
              THEN SplitWhitespaceFrom(s, i + 1, cur)
              ELSE <<cur>> \o SplitWhitespaceFrom(s, i + 1, <<>>)
         ELSE SplitWhitespaceFrom(s, i + 1, Append(cur, s[i]))

SplitWhitespace(s) == SplitWhitespaceFrom(s, 1, <<>>)

\* flexibleMatch(callTitle, searchTerm)
FlexibleMatch(callTitle, searchTerm) ==
    LET title == Trim(ToLowerCase(callTitle))
        term == Trim(ToLowerCase(searchTerm))
        normalizedTitle == NormalizeText(title)
        normalizedTerm == NormalizeText(term)
        titleWords == SelectSeq(SplitSpace(normalizedTitle), LAMBDA w : Len(w) > 1)
        termWords == SelectSeq(SplitSpace(normalizedTerm), LAMBDA w : Len(w) > 1)
        allWordsFound ==
            \A s \in 1..Len(termWords) : \E t \in 1..Len(titleWords) :
                \/ Includes(titleWords[t], termWords[s])
                \/ Includes(termWords[s], titleWords[t])
                \/ SimAbove(GongCalculateSimilarity(titleWords[t], termWords[s]),
                            8, 10)
    IN  \/ Includes(normalizedTitle, normalizedTerm)
        \/ allWordsFound /\ Len(termWords) > 0
        \/ \E s \in 1..Len(termWords) : \E t \in 1..Len(titleWords) :
               /\ Len(termWords[s]) >= 3
               /\ Len(titleWords[t]) >= 3
               /\ SimAbove(GongCalculateSimilarity(titleWords[t], termWords[s]),
                           7, 10)

\* Math.round(x) of x = n / d with d > 0: halves are rounded up
RoundFraction(n, d) == (2 * n + d) \div (2 * d)

\* GongMCPServer.calculateMatchScore(title, searchTerm)
CalculateMatchScore(title, searchTerm) ==
    LET normalizedTitle == ToLowerCase(title)
        normalizedTerm == ToLowerCase(searchTerm)
        titleWords == SplitWhitespace(normalizedTitle)
        termWords == SplitWhitespace(normalizedTerm)
        matchedWords ==
            Cardinality({s \in 1..Len(termWords) :
                \E t \in 1..Len(titleWords) :
                    \/ Includes(titleWords[t], termWords[s])
                    \/ Includes(termWords[s], titleWords[t])})
    IN  IF Includes(normalizedTitle, normalizedTerm) THEN 90
        ELSE Min(RoundFraction(20 * matchedWords * Len(termWords)
                                   + 30 * matchedWords,
                               Len(termWords)),
                 85)

-----------------------------------------------------------------------------
(* search_gong_calls and select_gong_call. Time is counted in months. *)

\* an absent tool argument, and a given date
NoDate == [given |-> FALSE]
DateOf(month) == [given |-> TRUE, month |-> month]

\* from and to of searchGongCalls: the given dates, or the last two months
\* up to now
SearchFrom(from) == IF from.given THEN from.month ELSE Now - MonthsBack
SearchTo(to) == IF to.given THEN to.month ELSE Now

\* gongGet('/calls', {fromDateTime, toDateTime}): the calls of the API that
\* started within the range, in the API's order
GongGetCalls(fromISO, toISO) ==
    SelectSeq(gongCalls, LAMBDA c : fromISO <= c.started /\ c.started <= toISO)

\* mutant: the comparator looks at the score alone
MatchComesBeforeByScore(a, b) == a.score > b.score

\* the sort comparator is negative: a sorts before b
MatchComesBefore(a, b) ==
    IF a.score # b.score THEN a.score > b.score
    ELSE a.started > b.started

\* Array.prototype.sort is stable
RECURSIVE InsertMatch(_, _)
InsertMatch(sorted, x) ==
    IF sorted = <<>> THEN <<x>>
    ELSE IF MatchComesBefore(x, sorted[Len(sorted)])
         THEN Append(InsertMatch(SubSeq(sorted, 1, Len(sorted) - 1), x),
                     sorted[Len(sorted)])
         ELSE Append(sorted, x)

RECURSIVE SortMatchesFrom(_, _, _)
SortMatchesFrom(entries, i, sorted) ==
    IF i > Len(entries) THEN sorted
    ELSE SortMatchesFrom(entries, i + 1, InsertMatch(sorted, entries[i]))

\* calls.filter(call => wordRegex.test(call.title)).map(...)
ExactMatches(calls, name) ==
    LET hits == SelectSeq(calls, LAMBDA c : WordRegexTest(name, c.title))
    IN  [i \in 1..Len(hits) |->
            [id |-> hits[i].id, title |-> hits[i].title,
             started |-> hits[i].started, matchType |-> "exact", score |-> 100]]

\* calls.filter(call => flexibleMatch(call.title, customerName)).map(...)
FuzzyMatches(calls, name) ==
    LET hits == SelectSeq(calls, LAMBDA c : FlexibleMatch(c.title, name))
    IN  [i \in 1..Len(hits) |->
            [id |-> hits[i].id, title |-> hits[i].title,
             started |-> hits[i].started, matchType |-> "fuzzy",
             score |-> CalculateMatchScore(hits[i].title, name)]]

\* GongMCPServer.searchGongCalls({customerName, fromDate, toDate}); a
\* SyntaxError of the RegExp constructor ends the call
SearchGongCalls(name, from, to) ==
    LET fromISO == SearchFrom(from)
        toISO == SearchTo(to)
        calls == GongGetCalls(fromISO, toISO)
        exact == ExactMatches(calls, name)
        matches == SortMatchesFrom(IF Len(exact) = 0
                                   THEN FuzzyMatches(calls, name)
                                   ELSE exact, 1, <<>>)
    IN  IF ~WordRegexValid(name)
        THEN [done |-> TRUE, threw |-> TRUE, calls |-> calls, matches |-> <<>>]
        ELSE [done |-> TRUE, threw |-> FALSE, calls |-> calls,
              matches |-> [i \in 1..Len(matches) |->
                  [selectionNumber |-> i,
                   callId |-> matches[i].id,
                   title |-> matches[i].title,
                   date |-> matches[i].started,
                   matchType |-> matches[i].matchType,
                   score |-> matches[i].score]]]

\* searchData.matches.find(match => match.selectionNumber === number), and
\* the response: the error when nothing is found, else the selected call
SelectFrom(searchData, number) ==
    LET found == {i \in 1..Len(searchData.matches) :
                     searchData.matches[i].selectionNumber = number}
    IN  IF searchData.threw \/ found = {}
        THEN [done |-> TRUE, threw |-> TRUE, callId |-> 0]
        ELSE [done |-> TRUE, threw |-> FALSE,
              callId |-> searchData.matches[CHOOSE i \in found :
                             \A j \in found : i <= j].callId]

\* GongMCPServer.selectGongCall({selectionNumber, customerName}): the search
\* is run again with the customer name alone
SelectGongCall(number, name) ==
    SelectFrom(SearchGongCalls(name, NoDate, NoDate), number)

-----------------------------------------------------------------------------
(* SpecSearch: searches over the default range; SpecSelect: a search over *)
(* any range and a selection by number                                    *)

TitlePool == {
    <<"A","c","m","e"," ","C","o","r","p"," ","Q","1">>,
    <<"A","c","m","e","-","C","o","r","p"," ","r","e","v","i","e","w">>,
    <<"A","k","m","e"," ","s","y","n","c">>,
    <<"A","+","E"," ","N","e","t","w","o","r","k","s">>,
    <<"W","e","e","k","l","y"," ","s","y","n","c">> }

QueryPool == {
    <<"a","c","m","e">>,
    <<"A","c","m","e"," ","C","o","r","p">>,
    <<"A","+","E">>,
    <<"c","o","r","p"," ","q","1"," ","z","z">>,
    <<"C","+","+">> }

\* the call lists of at most n calls with titles and start months from the
\* given sets; the id of a call is its position
CallsOf(titles, months, n) ==
    UNION {{[i \in 1..k |-> [id |-> i, title |-> f[i][1], started |-> f[i][2]]] :
               f \in [1..k -> titles \X months]} : k \in 0..n}

SearchInit ==
    /\ gongCalls \in CallsOf(TitlePool, (Now - 1)..Now, MaxCalls)
    /\ customerName \in QueryPool
    /\ fromDate = NoDate
    /\ toDate = NoDate
    /\ searchOut = [done |-> FALSE]
    /\ selectionNumber = 0
    /\ selectOut = [done |-> FALSE]
    /\ SimPinned /\ SumPinned /\ NormPinned /\ CatPinned /\ RecPinned /\ RetryPinned /\ FetchPinned

SelectInit ==
    /\ gongCalls \in CallsOf({<<"A","c","m","e"," ","C","o","r","p"," ","Q","1">>,
                              <<"W","e","e","k","l","y"," ","s","y","n","c">>},
                             1..Now, MaxCalls)
    /\ customerName = <<"a","c","m","e">>
    /\ fromDate \in {NoDate} \cup {DateOf(m) : m \in 1..Now}
    /\ toDate \in {NoDate} \cup {DateOf(m) : m \in 1..Now}
    /\ searchOut = [done |-> FALSE]
    /\ selectionNumber \in 1..MaxCalls
    /\ selectOut = [done |-> FALSE]
    /\ SimPinned /\ SumPinned /\ NormPinned /\ CatPinned /\ RecPinned /\ RetryPinned /\ FetchPinned

\* the tool call search_gong_calls
DoSearchGongCalls ==
    /\ ~searchOut.done
    /\ searchOut' = SearchGongCalls(customerName, fromDate, toDate)
    /\ UNCHANGED <<simA, simB, simOut, content, maxItems, result,
                   htmlContent, cleaned, catContent, analysis,
                   maxRecommendations, recommendations,
                   gongCalls, customerName, fromDate, toDate,
                   selectionNumber, selectOut,
                   attempt, fetchLog, retryPc, retryWait, thrown,
                   gongServer, gongCache, invocation, boardTool, miroRun,
                   toolResponse>>

\* the tool call select_gong_call with a selection number
DoSelectGongCall ==
    /\ ~selectOut.done
    /\ selectionNumber # 0
    /\ customerName # <<>>
    /\ selectOut' = SelectGongCall(selectionNumber, customerName)
    /\ UNCHANGED <<simA, simB, simOut, content, maxItems, result,
                   htmlContent, cleaned, catContent, analysis,
                   maxRecommendations, recommendations,
                   gongCalls, customerName, fromDate, toDate, searchOut,
                   selectionNumber,
                   attempt, fetchLog, retryPc, retryWait, thrown,
                   gongServer, gongCache, invocation, boardTool, miroRun,
                   toolResponse>>

SearchNext == DoSearchGongCalls

SelectNext == DoSearchGongCalls \/ DoSelectGongCall

SpecSearch == SearchInit /\ [][SearchNext]_vars

SpecSelect == SelectInit /\ [][SelectNext]_vars

-----------------------------------------------------------------------------
(* Claims about search_gong_calls and select_gong_call *)

\* the title holds the query, compared case-insensitively, between two word
\* boundaries
ContainsAsWholeWord(title, query) ==
    \E p \in 1..(Len(title) - Len(query) + 1) :
        /\ ToLowerCase(SubSeq(title, p, p + Len(query) - 1)) = ToLowerCase(query)
        /\ WordBoundary(title, p)
        /\ WordBoundary(title, p + Len(query))

\* C16: all matches of a search result have the same matchType; every
\* candidate call whose title holds the query as a whole word or phrase is
\* returned with matchType exact and score 100; and when there is such a
\* candidate no fuzzy match is returned.
C16_FuzzyOnlyWithoutExactMatch ==
    searchOut.done =>
        LET matches == searchOut.matches
            whole == {i \in 1..Len(searchOut.calls) :
                         ContainsAsWholeWord(searchOut.calls[i].title,
                                             customerName)}
        IN  /\ \A i, j \in 1..Len(matches) :
                   matches[i].matchType = matches[j].matchType
            /\ \A i \in whole : \E k \in 1..Len(matches) :
                   /\ matches[k].callId = searchOut.calls[i].id
                   /\ matches[k].matchType = "exact"
                   /\ matches[k].score = 100
            /\ whole # {} =>
                   \A k \in 1..Len(matches) : matches[k].matchType # "fuzzy"

\* punctuation stripped, white space collapsed, lowercased
NormalizedLower(text) == NormalizeText(ToLowerCase(text))

\* t and m of the token score: the white-space tokens of the lowercased
\* query, and those of them that are a substring of, or contain, a token of
\* the lowercased title
QueryTokens(query) == SplitWhitespace(ToLowerCase(query))

MatchedTokens(title, query) ==
    {s \in 1..Len(QueryTokens(query)) :
        \E t \in 1..Len(SplitWhitespace(ToLowerCase(title))) :
            LET tw == SplitWhitespace(ToLowerCase(title))[t]
                qw == QueryTokens(query)[s]
            IN  Includes(tw, qw) \/ Includes(qw, tw)}

\* C17: a fuzzy match has score 90 when its normalized title contains the
\* normalized query, and min(85, round(20 m + 30 m / t)) otherwise.
C17_FuzzyScoreFormula ==
    searchOut.done =>
        \A k \in 1..Len(searchOut.matches) :
            LET match == searchOut.matches[k]
                t == Len(QueryTokens(customerName))
                m == Cardinality(MatchedTokens(match.title, customerName))
            IN  match.matchType = "fuzzy" =>
                    IF Includes(NormalizedLower(match.title),
                                NormalizedLower(customerName))
                    THEN match.score = 90
                    ELSE match.score
                             = Min(85, (2 * (20 * m * t + 30 * m) + t) \div (2 * t))

\* C18: the matches of a search result are ordered by descending score, ties
\* by descending start, and the i-th match carries selection number i.
C18_MatchesSortedAndNumbered ==
    searchOut.done =>
        LET matches == searchOut.matches
        IN  /\ \A i, j \in 1..Len(matches) :
                   i < j =>
                       \/ matches[i].score > matches[j].score
                       \/ /\ matches[i].score = matches[j].score
                          /\ matches[i].date >= matches[j].date
            /\ \A i \in 1..Len(matches) : matches[i].selectionNumber = i

\* two matches of equal score: the call the API lists second started later
\* and is numbered 1
C18_Witness ==
    /\ searchOut.done
    /\ Len(searchOut.matches) = 2
    /\ searchOut.matches[1].score = searchOut.matches[2].score
    /\ searchOut.matches[1].date > searchOut.matches[2].date
    /\ searchOut.matches[1].callId = 2
    /\ searchOut.matches[1].selectionNumber = 1

\* C19: once a search for a customer name has returned n matches, selecting
\* number k <= n with that customer name yields the call that carried number
\* k in the search result.
C19_SelectionReturnsNumberedCall ==
    (/\ searchOut.done /\ ~searchOut.threw
     /\ selectOut.done
     /\ selectionNumber <= Len(searchOut.matches)) =>
        /\ ~selectOut.threw
        /\ selectOut.callId = searchOut.matches[selectionNumber].callId


-----------------------------------------------------------------------------
(* fetchWithRetry: the retry loop gongGet wraps around every page request *)

maxRetries == 3

BackoffBaseMs == 3000

BackoffCapMs == 60000

\* Math.random() in thousandths: the least value, a middle one, and the
\* greatest the model distinguishes below 1
RandomThousandths == {0, 500, 999}

\* retry-after headers the API sends, in seconds
RetryAfterSeconds == {1, 120}

\* What one invocation of fetchFn settles with: the response data, or a
\* rejection with an axios error carrying an HTTP response (status), an axios
\* error without a response (status 0), or an error that is not an axios
\* error.
FetchData ==
    [kind |-> "data", status |-> 200, hasRetryAfter |-> FALSE, retryAfter |-> 0]

RateLimitErrors ==
    {[kind |-> "axios", status |-> 429, hasRetryAfter |-> FALSE,
      retryAfter |-> 0]}
    \cup {[kind |-> "axios", status |-> 429, hasRetryAfter |-> TRUE,
           retryAfter |-> s] : s \in RetryAfterSeconds}

OtherErrors ==
    {[kind |-> "axios", status |-> 500, hasRetryAfter |-> FALSE,
      retryAfter |-> 0],
     [kind |-> "axios", status |-> 0, hasRetryAfter |-> FALSE,
      retryAfter |-> 0],
     [kind |-> "other", status |-> 0, hasRetryAfter |-> FALSE,
      retryAfter |-> 0]}

FetchErrors == RateLimitErrors \cup OtherErrors

\* a variant of the test below that takes every rejection for a rate limit
IsRateLimitedAnyError(error) == error.kind # "data"

\* axios.isAxiosError(error) && error.response?.status === 429
IsRateLimited(error) == error.kind = "axios" /\ error.status = 429

\* retryAfter ? parseFloat(retryAfter) * 1000
\*            : Math.min((2 ** attempt + Math.random()) * 3000, 60000)
\* in milliseconds, Math.random() being random / 1000
WaitMs(error, tries, random) ==
    IF error.hasRetryAfter
    THEN error.retryAfter * 1000
    ELSE Min(((2 ^ tries) * 1000 + random) * (BackoffBaseMs \div 1000),
             BackoffCapMs)

RetryInit ==
    /\ attempt = 0
    /\ fetchLog = <<>>
    /\ retryPc = "fetch"
    /\ retryWait = 0
    /\ thrown = 0
    /\ SimPinned /\ SumPinned /\ NormPinned /\ CatPinned /\ RecPinned
    /\ GongPinned /\ FetchPinned

RetryOthersUnchanged ==
    UNCHANGED <<simA, simB, simOut, content, maxItems, result,
                htmlContent, cleaned, catContent, analysis,
                maxRecommendations, recommendations,
                gongCalls, customerName, fromDate, toDate, searchOut,
                selectionNumber, selectOut,
                gongServer, gongCache, invocation, boardTool, miroRun,
                toolResponse>>

\* return await fetchFn(), the promise fulfilled
FetchResolves ==
    /\ retryPc = "fetch"
    /\ fetchLog' = Append(fetchLog, FetchData)
    /\ retryPc' = "returned"
    /\ UNCHANGED <<attempt, retryWait, thrown>>
    /\ RetryOthersUnchanged

\* the catch block on a rate-limit rejection before the last attempt: the
\* wait is computed and the timer set
RateLimitedWaits ==
    /\ retryPc = "fetch"
    /\ attempt # maxRetries
    /\ \E error \in FetchErrors, random \in RandomThousandths :
           /\ IsRateLimited(error)
           /\ fetchLog' = Append(fetchLog, error)
           /\ retryWait' = WaitMs(error, attempt, random)
    /\ retryPc' = "wait"
    /\ UNCHANGED <<attempt, thrown>>
    /\ RetryOthersUnchanged

\* the catch block on a rate-limit rejection at attempt === maxRetries: the
\* wait is computed and the caught error rethrown
RateLimitedGivesUp ==
    /\ retryPc = "fetch"
    /\ attempt = maxRetries
    /\ \E error \in FetchErrors, random \in RandomThousandths :
           /\ IsRateLimited(error)
           /\ fetchLog' = Append(fetchLog, error)
           /\ retryWait' = WaitMs(error, attempt, random)
    /\ thrown' = Len(fetchLog) + 1
    /\ retryPc' = "threw"
    /\ UNCHANGED attempt
    /\ RetryOthersUnchanged

\* the catch block on any other rejection: the caught error rethrown
OtherErrorThrown ==
    /\ retryPc = "fetch"
    /\ \E error \in FetchErrors :
           /\ ~IsRateLimited(error)
           /\ fetchLog' = Append(fetchLog, error)
    /\ thrown' = Len(fetchLog) + 1
    /\ retryPc' = "threw"
    /\ UNCHANGED <<attempt, retryWait>>
    /\ RetryOthersUnchanged

\* the timer fires: attempt++ and the loop's test attempt <= maxRetries
TimerFires ==
    /\ retryPc = "wait"
    /\ attempt' = attempt + 1
    /\ retryPc' = IF attempt + 1 <= maxRetries THEN "fetch" ELSE "returned"
    /\ UNCHANGED <<fetchLog, retryWait, thrown>>
    /\ RetryOthersUnchanged

RetryNext ==
    \/ FetchResolves
    \/ RateLimitedWaits
    \/ RateLimitedGivesUp
    \/ OtherErrorThrown
    \/ TimerFires

SpecRetry == RetryInit /\ [][RetryNext]_vars

\* C20: fetchWithRetry invokes the fetch at most 4 times (3 retries), and
\* every invocation but the last was answered with HTTP 429; a fourth
\* invocation answered with 429 ends the call by throwing that very error;
\* an error that is not a 429 response is thrown when it first occurs, so it
\* is always the last entry of the log and the call has ended by throwing it.
C20_RetriesOnlyOn429AtMostThree ==
    /\ Len(fetchLog) <= maxRetries + 1
    /\ \A i \in 1..Len(fetchLog) :
           i < Len(fetchLog) =>
               fetchLog[i].kind = "axios" /\ fetchLog[i].status = 429
    /\ (/\ Len(fetchLog) = maxRetries + 1
        /\ fetchLog[maxRetries + 1].status = 429) =>
           retryPc = "threw" /\ thrown = maxRetries + 1
    /\ \A i \in 1..Len(fetchLog) :
           (fetchLog[i].kind # "data" /\ fetchLog[i].status # 429) =>
               i = Len(fetchLog) /\ retryPc = "threw" /\ thrown = i
    /\ thrown # 0 => thrown = Len(fetchLog) /\ retryPc = "threw"
    /\ retryPc = "returned" => fetchLog[Len(fetchLog)].kind = "data"

\* four invocations, each answered with 429, and the fourth error thrown
C20_Witness ==
    /\ retryPc = "threw"
    /\ Len(fetchLog) = 4
    /\ \A i \in 1..4 : fetchLog[i].status = 429
    /\ thrown = 4


\* C21: whenever fetchWithRetry is waiting before a retry, the delay it set
\* the timer to is at most 60 seconds, whatever the attempt number, the value
\* of Math.random() and the retry-after header of the response.
C21_RetryDelayAtMostSixtySeconds ==
    retryPc = "wait" => retryWait <= BackoffCapMs


-----------------------------------------------------------------------------
(* gongGet: the paginated fetch of /calls and the module's cache *)

maxPages == 50

\* Numbers of pages a server holds for a query: a single page, two, exactly
\* the client's limit, and more than the limit (every response the client
\* sees carries a cursor).
ServerPageCounts == {1, 2, maxPages, maxPages + 1}

\* most pages a server holds when two callers are in flight together
MaxServerPages == 2

\* Response formats: the field that holds the page's array, the field that
\* holds the cursor, and the calls on a page. The first is the format of the
\* Gong API; the fourth sends empty pages; the last has no array the client
\* recognises.
ServerFormats ==
    {[arrayField |-> "calls", cursorField |-> "records.cursor", pageSize |-> 2],
     [arrayField |-> "records", cursorField |-> "next", pageSize |-> 1],
     [arrayField |-> "data", cursorField |-> "cursor", pageSize |-> 1],
     [arrayField |-> "calls", cursorField |-> "nextCursor", pageSize |-> 0],
     [arrayField |-> "none", cursorField |-> "next", pageSize |-> 1]}

\* the calls on page n of a server with pages of the given size; a call is
\* its number in the server's list
ServerPage(n, size) == [i \in 1..size |-> (n - 1) * size + i]

NoArray == [isArray |-> FALSE, items |-> <<>>]

\* The body of the response to the request for page n. A cursor is the number
\* of the page it leads to; 0 stands for an absent field. recordsCursor is
\* response.records.cursor.
ServerResponse(server, n) ==
    LET page == [isArray |-> TRUE, items |-> ServerPage(n, server.pageSize)]
        next == IF n < server.pages THEN n + 1 ELSE 0
        at(field) == IF server.cursorField = field THEN next ELSE 0
        in(field) == IF server.arrayField = field THEN page ELSE NoArray
    IN  [calls |-> in("calls"), records |-> in("records"), data |-> in("data"),
         recordsCursor |-> at("records.cursor"), next |-> at("next"),
         cursor |-> at("cursor"), nextCursor |-> at("nextCursor")]

\* let pageCalls = []; if (Array.isArray(response.calls)) ... else if ...
PageCallsOf(response) ==
    IF response.calls.isArray THEN response.calls.items
    ELSE IF response.records.isArray THEN response.records.items
    ELSE IF response.data.isArray THEN response.data.items
    ELSE <<>>

\* cursor = null; if (response.records && response.records.cursor) ... else if
CursorOf(response) ==
    IF response.recordsCursor # 0 THEN response.recordsCursor
    ELSE IF response.next # 0 THEN response.next
    ELSE IF response.cursor # 0 THEN response.cursor
    ELSE IF response.nextCursor # 0 THEN response.nextCursor
    ELSE 0

\* a variant of the cache write below that keeps only the entry written
CacheSetEvicting(cache, key, value) ==
    [k \in GongKeys |->
        IF k = key THEN [has |-> TRUE, calls |-> value.calls]
        ELSE [has |-> FALSE]]

\* gongCache.set(cacheKey, result)
CacheSet(cache, key, value) ==
    [cache EXCEPT ![key] = [has |-> TRUE, calls |-> value.calls]]

\* a variant of the write below that stores the calls after every page
CacheAfterEveryPage(ended, cache, key, value) == CacheSet(cache, key, value)

\* gongCache.set follows the loop: the cache is written once the loop ended
CacheAfterPage(ended, cache, key, value) ==
    IF ended THEN CacheSet(cache, key, value) ELSE cache

\* a variant of the test below without the page limit
PagingEndsWithoutLimit(pageCount, cursor) == cursor = 0

\* if (pageCount >= maxPages) break; ... while (cursor)
PagingEnds(pageCount, cursor) == pageCount >= maxPages \/ cursor = 0

GongGetOthersUnchanged ==
    UNCHANGED <<simA, simB, simOut, content, maxItems, result,
                htmlContent, cleaned, catContent, analysis,
                maxRecommendations, recommendations,
                gongCalls, customerName, fromDate, toDate, searchOut,
                selectionNumber, selectOut,
                attempt, fetchLog, retryPc, retryWait, thrown,
                boardTool, miroRun, toolResponse>>

\* const cacheKey = ...; allCalls = []; cursor = null; pageCount = 0; the
\* first iteration up to the request of fetchFn. No entry of gongCache is
\* looked up. hadEntry and cacheAtCall record the cache as the call found it.
Call(p) ==
    /\ invocation[p].pc = "ready"
    /\ invocation' = [invocation EXCEPT ![p] =
           [pc |-> "fetch", key |-> invocation[p].key, allCalls |-> <<>>,
            cursor |-> 0, pageCount |-> 0, attempt |-> 0,
            hadEntry |-> gongCache[invocation[p].key].has,
            cacheAtCall |-> gongCache]]
    /\ UNCHANGED <<gongServer, gongCache>>
    /\ GongGetOthersUnchanged

\* the request is answered with a page: the rest of the loop body, then
\* either the 200 ms timer or the end of the loop, the cache write and return
PageArrives(p) ==
    /\ invocation[p].pc = "fetch"
    /\ LET inv == invocation[p]
           response == ServerResponse(gongServer,
                                      IF inv.cursor = 0 THEN 1 ELSE inv.cursor)
           pageCalls == PageCallsOf(response)
           allCalls == IF Len(pageCalls) > 0 THEN inv.allCalls \o pageCalls
                       ELSE inv.allCalls
           cursor == CursorOf(response)
           pageCount == inv.pageCount + 1
           value == [calls |-> allCalls, next |-> 0]
           ended == PagingEnds(pageCount, cursor)
       IN  /\ invocation' = [invocation EXCEPT ![p] =
                  [inv EXCEPT !.pc = IF ended THEN "returned" ELSE "delay",
                              !.allCalls = allCalls, !.cursor = cursor,
                              !.pageCount = pageCount]]
           /\ gongCache' = CacheAfterPage(ended, gongCache, inv.key, value)
    /\ UNCHANGED gongServer
    /\ GongGetOthersUnchanged

\* the 200 ms timer fires: while (cursor) holds, the next iteration starts
\* fetchWithRetry anew and requests the next page
DelayElapses(p) ==
    /\ invocation[p].pc = "delay"
    /\ invocation' = [invocation EXCEPT ![p] =
           [@ EXCEPT !.pc = "fetch", !.attempt = 0]]
    /\ UNCHANGED <<gongServer, gongCache>>
    /\ GongGetOthersUnchanged

\* fetchWithRetry: the request is rejected with 429 before the last attempt
RateLimited(p) ==
    /\ invocation[p].pc = "fetch"
    /\ invocation[p].attempt # maxRetries
    /\ \E error \in FetchErrors : IsRateLimited(error)
    /\ invocation' = [invocation EXCEPT ![p] = [@ EXCEPT !.pc = "backoff"]]
    /\ UNCHANGED <<gongServer, gongCache>>
    /\ GongGetOthersUnchanged

\* fetchWithRetry: the backoff timer fires, attempt++, and the page is
\* requested again
BackoffElapses(p) ==
    /\ invocation[p].pc = "backoff"
    /\ invocation' = [invocation EXCEPT ![p] =
           [@ EXCEPT !.pc = "fetch", !.attempt = @ + 1]]
    /\ UNCHANGED <<gongServer, gongCache>>
    /\ GongGetOthersUnchanged

\* fetchWithRetry throws (429 at the last attempt, or any other error); no
\* catch in gongGet, so the invocation ends by throwing that error
RequestFails(p) ==
    /\ invocation[p].pc = "fetch"
    /\ \E error \in FetchErrors :
           /\ IsRateLimited(error) => invocation[p].attempt = maxRetries
           /\ invocation' = [invocation EXCEPT ![p] =
                  [pc |-> "threw", key |-> invocation[p].key,
                   pageCount |-> invocation[p].pageCount,
                   hadEntry |-> invocation[p].hadEntry,
                   cacheAtCall |-> invocation[p].cacheAtCall,
                   status |-> error.status]]
    /\ UNCHANGED <<gongServer, gongCache>>
    /\ GongGetOthersUnchanged

GongGetNext ==
    \E p \in Callers :
        \/ Call(p)
        \/ PageArrives(p)
        \/ DelayElapses(p)
        \/ RateLimited(p)
        \/ BackoffElapses(p)
        \/ RequestFails(p)

MiroPinned ==
    /\ boardTool = [tool |-> "none"] /\ miroRun = [pc |-> "idle"]
    /\ toolResponse = [done |-> FALSE]

GongGetOthersPinned ==
    /\ SimPinned /\ SumPinned /\ NormPinned /\ CatPinned /\ RecPinned
    /\ GongPinned /\ RetryPinned /\ MiroPinned

\* one caller, an empty cache or an entry of an earlier call for the key
PagesInit ==
    /\ \E format \in ServerFormats, pages \in ServerPageCounts :
           gongServer = [used |-> TRUE, pages |-> pages,
                         pageSize |-> format.pageSize,
                         arrayField |-> format.arrayField,
                         cursorField |-> format.cursorField]
    /\ \E key \in GongKeys :
           /\ invocation = [p \in Callers |->
                  IF p = 1 THEN [pc |-> "ready", key |-> key]
                  ELSE [pc |-> "none"]]
           /\ \/ gongCache = [k \in GongKeys |-> [has |-> FALSE]]
              \/ gongCache = [k \in GongKeys |->
                     IF k = key THEN [has |-> TRUE, calls |-> <<>>]
                     ELSE [has |-> FALSE]]
    /\ GongGetOthersPinned

\* every caller, each with a key, an empty cache, a server of few pages in
\* the Gong API's format
CacheInit ==
    /\ \E pages \in 1..MaxServerPages :
           gongServer = [used |-> TRUE, pages |-> pages, pageSize |-> 1,
                         arrayField |-> "calls",
                         cursorField |-> "records.cursor"]
    /\ \E keys \in [Callers -> GongKeys] :
           invocation = [p \in Callers |-> [pc |-> "ready", key |-> keys[p]]]
    /\ gongCache = [k \in GongKeys |-> [has |-> FALSE]]
    /\ GongGetOthersPinned

SpecPages == PagesInit /\ [][GongGetNext]_vars

SpecCache == CacheInit /\ [][GongGetNext]_vars


\* C22: a gongGet call that finds an entry for its cache key, left by an
\* earlier call that completed, returns that entry's calls without requesting
\* any page.
C22_CachedResultReturnedWithoutRequest ==
    \A p \in Callers :
        (invocation[p].pc \notin {"none", "ready"} /\ invocation[p].hadEntry)
            => /\ invocation[p].pc = "returned"
               /\ invocation[p].pageCount = 0
               /\ invocation[p].allCalls
                      = invocation[p].cacheAtCall[invocation[p].key].calls

\* C23: no step removes an entry from gongCache, and a gongGet call always
\* starts a fetch of its own from the first page, whether or not another
\* call for the same key is in flight.
C23_NoSingleFlightNoEviction ==
    [][/\ \A k \in GongKeys : gongCache[k].has => gongCache'[k].has
       /\ \A p \in Callers :
              (invocation[p].pc = "ready" /\ invocation'[p].pc # "ready")
                  => /\ invocation'[p].pc = "fetch"
                     /\ invocation'[p].pageCount = 0
                     /\ invocation'[p].allCalls = <<>>]_vars

\* two calls for the same key overlap: each has fetched the first page
\* itself and has its own request for the second page in flight
C23_Witness ==
    /\ invocation[1].pc = "fetch" /\ invocation[2].pc = "fetch"
    /\ invocation[1].key = invocation[2].key
    /\ invocation[1].pageCount = 1 /\ invocation[2].pageCount = 1
    /\ invocation[1].allCalls = invocation[2].allCalls


\* The timers of the event loop fire and every HTTP request is eventually
\* answered or rejected.
FairSpecPages == SpecPages /\ WF_vars(GongGetNext)

\* the calls of the first n pages in page order, as far as the response
\* format holds them in a field the client reads
CallsOfPages(n) ==
    IF gongServer.arrayField \in {"calls", "records", "data"}
    THEN [i \in 1..(n * gongServer.pageSize) |-> i]
    ELSE <<>>

C28_FailedFetchLeavesCacheAndReturnsNothing ==
    invocation[1].pc \notin {"none", "ready"} =>
        /\ invocation[1].pc = "threw" =>
               /\ gongCache = invocation[1].cacheAtCall
               /\ "allCalls" \notin DOMAIN invocation[1]
               /\ invocation[1].status # 200
        /\ invocation[1].pc \in {"fetch", "backoff", "delay"} =>
               gongCache = invocation[1].cacheAtCall
        /\ gongCache # invocation[1].cacheAtCall =>
               invocation[1].pc = "returned"

\* the request for the second page is rejected with 429 at the last attempt:
\* the call throws, the first page's calls are dropped, the earlier entry of
\* the cache is still there
C28_Witness ==
    /\ invocation[1].pc = "threw"
    /\ invocation[1].pageCount = 1
    /\ invocation[1].status = 429
    /\ invocation[1].hadEntry
    /\ gongCache[invocation[1].key] = [has |-> TRUE, calls |-> <<>>]


-----------------------------------------------------------------------------
(* Claims about the order of deduplication *)

\* the items that pass the filter stage, in input order
Filtered == SelectSeq(content, Meaningful)

\* equal after lowercasing and trimming, or of similarity above 0.8
NearDuplicates(a, b) ==
    \/ Normalized(a) = Normalized(b)
    \/ SimAbove(CalculateSimilarity(Normalized(a), Normalized(b)),
                SimilarityThresholdNum, SimilarityThresholdDen)

\* the items of list at the positions in keep, in the order of list
Restrict(list, keep) ==
    [n \in 1..Cardinality(keep) |->
        list[CHOOSE i \in keep : Cardinality({j \in keep : j <= i}) = n]]

\* C25: the deduplicated list consists of the filtered items at the
\* positions K, in input order, where a position is in K if and only if no
\* earlier position in K holds a near-duplicate of its item; the first
\* filtered item is kept, and every dropped item has an earlier kept
\* near-duplicate.
C25_DeduplicationGreedyInInputOrder ==
    result.done =>
        LET filtered == Filtered
            n == Len(filtered)
            near == {pair \in (1..n) \X (1..n) :
                        /\ pair[1] < pair[2]
                        /\ NearDuplicates(filtered[pair[1]], filtered[pair[2]])}
        IN  \E keep \in SUBSET (1..n) :
                /\ \A i \in 1..n :
                       i \in keep <=> ~\E j \in keep : <<j, i>> \in near
                /\ result.uniqueContent = Restrict(filtered, keep)
                /\ n > 0 => 1 \in keep
                /\ \A i \in (1..n) \ keep : \E j \in keep : <<j, i>> \in near

\* the second item was dropped as a near-duplicate of the first; the third
\* is a near-duplicate of the dropped second but not of the first, and was
\* kept
C25_Witness ==
    /\ result.done
    /\ Len(Filtered) = 3
    /\ result.uniqueContent = <<Filtered[1], Filtered[3]>>
    /\ NearDuplicates(Filtered[1], Filtered[2])
    /\ NearDuplicates(Filtered[2], Filtered[3])
    /\ ~NearDuplicates(Filtered[1], Filtered[3])


-----------------------------------------------------------------------------
(* Claims about the scores of fuzzy matches *)

\* C26: every match of a search that has matchType fuzzy has a score of at
\* least 20 and at most 90.
C26_FuzzyScoreBetweenTwentyAndNinety ==
    (searchOut.done /\ ~searchOut.threw) =>
        \A i \in 1..Len(searchOut.matches) :
            searchOut.matches[i].matchType = "fuzzy" =>
                /\ searchOut.matches[i].score >= 20
                /\ searchOut.matches[i].score <= 90


-----------------------------------------------------------------------------
(* Claims about the scores of recommendations *)

\* C29: every recommendation returned, by the server and by the client, has
\* a relevanceScore strictly greater than 0.
C29_RecommendationScoresPositive ==
    recommendations.done =>
        \A i \in 1..Len(recommendations.list) :
            recommendations.list[i].relevanceScore.num > 0


-----------------------------------------------------------------------------
(* Board tools of the Miro server: get_board_items and
   get_efficient_board_analysis, from the tool call to its response, with the
   requests of MiroClient.makeRequest in between. The processing of the
   fetched content is the subject of SpecSum and SpecFilter; here a
   successful response carries the fetched items only. *)

\* most page requests of one paginated fetch the model follows is one more
\* than this bound
MiroPageBound == 3

\* most items on a page
MaxPageItems == 2

\* upstream failures: an HTTP status with its reason phrase, or (code 0) an
\* axios error without a response
MiroFailures ==
    {[code |-> 401, digits |-> <<"4","0","1">>, text |-> <<"U","n","a","u","t","h","o","r","i","z","e","d">>],
     [code |-> 403, digits |-> <<"4","0","3">>, text |-> <<"F","o","r","b","i","d","d","e","n">>],
     [code |-> 404, digits |-> <<"4","0","4">>, text |-> <<"N","o","t"," ","F","o","u","n","d">>],
     [code |-> 429, digits |-> <<"4","2","9">>, text |-> <<"T","o","o"," ","M","a","n","y"," ","R","e","q","u","e","s","t","s">>],
     [code |-> 500, digits |-> <<"5","0","0">>, text |-> <<"I","n","t","e","r","n","a","l"," ","S","e","r","v","e","r"," ","E","r","r","o","r">>],
     [code |-> 0, digits |-> <<"u","n","d","e","f","i","n","e","d">>, text |-> <<"u","n","d","e","f","i","n","e","d">>]}

\* bodies of the responses to a page request: an object with a data array
\* and possibly a cursor, a bare array, or an object of another structure
MiroPageResponses ==
    {[shape |-> "paged", count |-> n, more |-> b] :
        n \in 0..MaxPageItems, b \in BOOLEAN}
    \cup {[shape |-> "array", count |-> n, more |-> FALSE] :
             n \in 0..MaxPageItems}
    \cup {[shape |-> "object", count |-> 0, more |-> FALSE]}

\* the tool calls followed: the tool, its output argument, the boardId given
BoardToolCalls ==
    {[tool |-> "get_board_items", output |-> o, boardId |-> b] :
        o \in {"content", "items", "both"}, b \in {<<"u","X","j","V","=">>, <<"b","1">>}}
    \cup {[tool |-> "get_efficient_board_analysis", output |-> "none",
           boardId |-> b] : b \in {<<"u","X","j","V","=">>, <<"b","1">>}}

\* MiroClient.extractBoardId for an input that is a board id, not a URL
ExtractBoardId(input) ==
    IF Len(input) > 0 /\ input[Len(input)] = "=" THEN input
    ELSE input \o <<"=">>

\* String.prototype.replace with a string pattern: the first occurrence
ReplaceFirst(s, pat, rep) ==
    IF Includes(s, pat)
    THEN LET i == CHOOSE k \in 1..(Len(s) - Len(pat) + 1) :
                      /\ SubSeq(s, k, k + Len(pat) - 1) = pat
                      /\ \A j \in 1..(k - 1) :
                             SubSeq(s, j, j + Len(pat) - 1) # pat
         IN  SubSeq(s, 1, i - 1) \o rep \o SubSeq(s, i + Len(pat), Len(s))
    ELSE s

\* the message of the error makeRequest throws for an axios error:
\* `Miro API error: ${error.response?.status} ${error.response?.statusText}`
MakeRequestError(failure) ==
    <<"M","i","r","o"," ","A","P","I"," ","e","r","r","o","r",":"," ">> \o failure.digits \o <<" ">> \o failure.text

\* the message as it reaches the tool's catch: getBoardInfo wraps it, and so
\* does getBoardContent (first part of outputs content and both) or
\* getSmartBoardAnalysis around it
WrappedMessage(call, part, message) ==
    LET info == <<"F","a","i","l","e","d"," ","t","o"," ","f","e","t","c","h"," ","b","o","a","r","d"," ","i","n","f","o",":"," ">> \o message
    IN  IF call.tool = "get_efficient_board_analysis"
        THEN <<"F","a","i","l","e","d"," ","t","o"," ","p","e","r","f","o","r","m"," ","s","m","a","r","t"," ","b","o","a","r","d"," ","a","n","a","l","y","s","i","s",":"," ">> \o info
        ELSE IF call.output = "content" \/ (call.output = "both" /\ part = 1)
        THEN <<"F","a","i","l","e","d"," ","t","o"," ","e","x","t","r","a","c","t"," ","b","o","a","r","d"," ","c","o","n","t","e","n","t",":"," ">> \o info
        ELSE info

\* the operation the tool's catch passes to createErrorResponse
OperationOf(call) ==
    IF call.tool = "get_board_items" THEN <<"B","o","a","r","d"," ","i","t","e","m","s"," ","r","e","t","r","i","e","v","a","l">>
    ELSE <<"B","o","a","r","d"," ","a","n","a","l","y","s","i","s">>

\* MiroTemplateRecommenderServer.createErrorResponse(operation, error, context)
CreateErrorResponse(operation, errorMessage, context) ==
    LET m1 == IF Includes(errorMessage, <<"M","i","r","o"," ","A","P","I"," ","e","r","r","o","r",":">>)
              THEN ReplaceFirst(errorMessage, <<"M","i","r","o"," ","A","P","I"," ","e","r","r","o","r",":"," ">>, <<>>)
              ELSE errorMessage
        m2 == IF Includes(m1, <<"F","a","i","l","e","d"," ","t","o">>)
              THEN ReplaceFirst(m1, <<"F","a","i","l","e","d"," ","t","o"," ">>, <<>>)
              ELSE m1
        message ==
            IF Includes(m2, <<"4","0","4">>) \/ Includes(m2, <<"n","o","t"," ","f","o","u","n","d">>)
            THEN operation \o <<":"," ","I","t","e","m"," ","n","o","t"," ","f","o","u","n","d">>
            ELSE IF Includes(m2, <<"4","0","1">>) \/ Includes(m2, <<"4","0","3">>)
            THEN operation \o <<":"," ","A","c","c","e","s","s"," ","d","e","n","i","e","d">>
            ELSE IF Includes(m2, <<"4","2","9">>)
            THEN operation \o <<":"," ","R","a","t","e"," ","l","i","m","i","t","e","d",","," ","r","e","t","r","y"," ","l","a","t","e","r">>
            ELSE IF Includes(m2, <<"t","i","m","e","o","u","t">>)
            THEN operation \o <<":"," ","R","e","q","u","e","s","t"," ","t","i","m","e","o","u","t">>
            ELSE IF Len(m2) > 100
            THEN SubSeq(m2, 1, 97) \o <<".",".",".">>
            ELSE m2
        finalMessage == IF Len(context) > 0
                        THEN message \o <<" ","(">> \o context \o <<")">>
                        ELSE message
    IN  [done |-> TRUE, isError |-> TRUE, text |-> finalMessage]

\* what the paginated makeRequest returns for allData: the single element
\* itself, or the array wrapped in a data property
PaginatedResult(allData) ==
    IF Len(allData) = 1 THEN [single |-> TRUE, value |-> allData[1]]
    ELSE [single |-> FALSE, data |-> allData]

\* itemsResponse.data || [] in getBoardInfo. An item is its number and its
\* data property is an object; 0 is a response object of another structure,
\* without a data property.
BoardItemsOf(itemsResponse) ==
    IF itemsResponse.single
    THEN IF itemsResponse.value = 0 THEN [isArray |-> TRUE, list |-> <<>>]
         ELSE [isArray |-> FALSE, list |-> <<>>]
    ELSE [isArray |-> TRUE, list |-> itemsResponse.data]

MiroOthersUnchanged ==
    UNCHANGED <<simA, simB, simOut, content, maxItems, result,
                htmlContent, cleaned, catContent, analysis,
                maxRecommendations, recommendations,
                gongCalls, customerName, fromDate, toDate, searchOut,
                selectionNumber, selectOut,
                attempt, fetchLog, retryPc, retryWait, thrown,
                gongServer, gongCache, invocation>>

\* the tool is called: extractBoardId, then getBoardInfo requests the board
StartBoardTool ==
    /\ miroRun.pc = "start"
    /\ miroRun' = [pc |-> "board", part |-> 1,
                   boardId |-> ExtractBoardId(boardTool.boardId),
                   requests |-> 0, allData |-> <<>>, pages |-> <<>>,
                   returned |-> FALSE, itemsResponse |-> PaginatedResult(<<>>),
                   failed |-> 0]
    /\ UNCHANGED <<boardTool, toolResponse>>
    /\ MiroOthersUnchanged

\* the board arrives: makeRequest(items, true) starts with its first request
BoardArrives ==
    /\ miroRun.pc = "board"
    /\ miroRun' = [miroRun EXCEPT !.pc = "items", !.requests = 1,
                                  !.allData = <<>>, !.pages = <<>>,
                                  !.returned = FALSE]
    /\ UNCHANGED <<boardTool, toolResponse>>
    /\ MiroOthersUnchanged

\* A page arrives: the rest of the loop body. With a cursor the next page is
\* requested; otherwise makeRequest returns, getBoardInfo returns, and the
\* tool goes on: it iterates over the items (a TypeError when they are not
\* an array), requests the board again (second part of output both), or
\* responds. pages keeps the items of each page as they arrived, returned
\* and itemsResponse what the paginated makeRequest returned.
ItemsPageArrives ==
    /\ miroRun.pc = "items"
    /\ \E response \in MiroPageResponses :
        LET base == Len(miroRun.allData)
            page == IF response.shape = "object" THEN <<0>>
                    ELSE [k \in 1..response.count |-> base + k]
            allData == miroRun.allData \o page
            pages == Append(miroRun.pages, page)
            hasMore == response.shape = "paged" /\ response.more
            itemsResponse == PaginatedResult(allData)
            items == BoardItemsOf(itemsResponse)
            iterates == boardTool.tool = "get_efficient_board_analysis"
                        \/ boardTool.output = "content"
                        \/ (boardTool.output = "both" /\ miroRun.part = 1)
            fetched == [miroRun EXCEPT !.allData = allData, !.pages = pages,
                                       !.returned = ~hasMore,
                                       !.itemsResponse =
                                           IF hasMore THEN @ ELSE itemsResponse]
        IN  IF hasMore
            THEN /\ miroRun.requests <= MiroPageBound
                 /\ miroRun' = [fetched EXCEPT !.requests = @ + 1]
                 /\ UNCHANGED toolResponse
            ELSE IF iterates /\ ~items.isArray
            THEN /\ miroRun' = [fetched EXCEPT !.pc = "done"]
                 /\ toolResponse' = CreateErrorResponse(
                        OperationOf(boardTool),
                        IF boardTool.tool = "get_efficient_board_analysis"
                        THEN <<"F","a","i","l","e","d"," ","t","o"," ","p","e","r","f","o","r","m"," ","s","m","a","r","t"," ","b","o","a","r","d"," ","a","n","a","l","y","s","i","s",":"," ","b","o","a","r","d","I","n","f","o",".","i","t","e","m","s"," ","i","s"," ","n","o","t"," ","i","t","e","r","a","b","l","e">>
                        ELSE <<"F","a","i","l","e","d"," ","t","o"," ","e","x","t","r","a","c","t"," ","b","o","a","r","d"," ","c","o","n","t","e","n","t",":"," ","b","o","a","r","d","I","n","f","o",".","i","t","e","m","s"," ","i","s"," ","n","o","t"," ","i","t","e","r","a","b","l","e">>,
                        miroRun.boardId)
            ELSE IF boardTool.output = "both" /\ miroRun.part = 1
            THEN /\ miroRun' = [fetched EXCEPT !.pc = "board", !.part = 2]
                 /\ UNCHANGED toolResponse
            ELSE /\ miroRun' = [fetched EXCEPT !.pc = "done"]
                 /\ toolResponse' = [done |-> TRUE, isError |-> FALSE,
                                     items |-> items]
    /\ UNCHANGED boardTool
    /\ MiroOthersUnchanged

\* a request is rejected: makeRequest throws, the callers wrap the message,
\* and the tool's catch responds with createErrorResponse
MiroRequestFails ==
    /\ miroRun.pc \in {"board", "items"}
    /\ \E failure \in MiroFailures :
           /\ miroRun' = [miroRun EXCEPT !.pc = "done", !.failed = failure.code]
           /\ toolResponse' = CreateErrorResponse(
                  OperationOf(boardTool),
                  WrappedMessage(boardTool, miroRun.part,
                                 MakeRequestError(failure)),
                  miroRun.boardId)
    /\ UNCHANGED boardTool
    /\ MiroOthersUnchanged

MiroInit ==
    /\ boardTool \in BoardToolCalls
    /\ miroRun = [pc |-> "start"]
    /\ toolResponse = [done |-> FALSE]
    /\ gongServer = [used |-> FALSE]
    /\ gongCache = [key \in GongKeys |-> [has |-> FALSE]]
    /\ invocation = [p \in Callers |-> [pc |-> "none"]]
    /\ SimPinned /\ SumPinned /\ NormPinned /\ CatPinned /\ RecPinned
    /\ GongPinned /\ RetryPinned

MiroNext ==
    \/ StartBoardTool
    \/ BoardArrives
    \/ ItemsPageArrives
    \/ MiroRequestFails

SpecMiro == MiroInit /\ [][MiroNext]_vars


\* C24: when a request of a board tool call failed with an upstream status
\* code, the response is an error whose text names the tool's operation and
\* holds the status code.
C24_ErrorNamesOperationAndStatus ==
    (toolResponse.done /\ miroRun.failed # 0) =>
        /\ toolResponse.isError
        /\ Includes(toolResponse.text, OperationOf(boardTool))
        /\ Includes(toolResponse.text,
                    (CHOOSE f \in MiroFailures : f.code = miroRun.failed).digits)

\* C30: a paginated fetch issues at most MiroPageBound page requests, and
\* what it returns holds the items of all fetched pages in fetch order in
\* its data array (a response object of another structure is returned as it
\* is).
C30_MiroPagingBoundedAndComplete ==
    miroRun.pc \in {"items", "done"} =>
        /\ miroRun.requests <= MiroPageBound
        /\ miroRun.returned =>
               IF miroRun.pages = <<<<0>>>>
               THEN miroRun.itemsResponse = [single |-> TRUE, value |-> 0]
               ELSE miroRun.itemsResponse
                        = [single |-> FALSE, data |-> Concat(miroRun.pages)]

====
